---------------------------- MODULE Spec2Model ----------------------------
(***************************************************************************)
(* Delicatessen production planner: the computation pipeline.              *)
(*                                                                         *)
(*   FiscalCalendar  src/src/lib/fiscal-calendar.ts   lines 8-211          *)
(*   BatchOptimizer  src/src/lib/fiscal-calendar.ts   lines 224-608        *)
(*   HolidayEngine   src/src/lib/holiday-engine.ts                         *)
(*   DemandForecaster src/src/lib/forecasting.ts                           *)
(*   PlanGenerator   src/unnamed/part_010                                  *)
(*                                                                         *)
(* Conventions.                                                            *)
(*  - A Date is the number of the local calendar day, day 0 being          *)
(*    0001-01-01 (proleptic Gregorian, a Monday).  Every Date the code     *)
(*    builds is a local midnight, and the local time zone is taken to have *)
(*    no daylight-saving shift, so the millisecond differences the code    *)
(*    divides by 86,400,000 are whole days.                                *)
(*  - A JavaScript number that need not be an integer is held in           *)
(*    thousandths (Scale = 1000), every division rounding down.  Branch    *)
(*    conditions on ratios of integers are decided exactly, by cross       *)
(*    multiplication.  NaN is the value NaN below; every operation that    *)
(*    can meet it treats it as JavaScript does.                            *)
(***************************************************************************)
EXTENDS Integers, Sequences, FiniteSets, TLC

VARIABLES
    unit,              \* which class of the library the run drives
    fiscalYearStart,   \* FiscalCalendar.fiscalYearStart, as [month, day]
    fcPc,              \* "idle" | "calendar" | "fiscal": last conversion made
    fiscalIn,          \* the fiscal coordinates last handed to convertToCalendarDate
    calendarDate,      \* the Date it returned
    fiscalOut,         \* convertToFiscalDate(calendarDate)
    lastYearDate,      \* getCorrespondingDateLastYear(calendarDate)
    ctorHolidays,      \* the array handed to the HolidayEngine constructor
    callerHolidays,    \* what the caller's array holds now
    shared,            \* this.holidays is the caller's array itself
    holidays,          \* HolidayEngine.holidays
    mutations,         \* addHoliday/updateHoliday/removeHoliday calls made so far
    hePc,              \* "idle" | "impact" | "resolved" | "year": a query has returned
    impactDate,        \* the date of that call
    impact,            \* the HolidayImpact it returned
    floatCall,         \* the holiday and year handed to calculateFloatingHoliday
    floatDate,         \* the date it returned
    yearCall,          \* the year handed to getHolidaysForYear
    yearOut,           \* the HolidayInstance list it returned
    boPc,              \* "idle" | "decided" | "risk": a BatchOptimizer call has returned
    batchCall,         \* the arguments of the optimizeBatchSize call
    decision,          \* the BatchDecision it returned
    wasteCall,         \* the arguments of the calculateWasteRisk call
    wasteOut,          \* the risk it returned
    pgPc,              \* "idle" | "forecast" | "planned" | "replanned"
    planCall,          \* the arguments of the generatePlan call, with its wall clock
    plan,              \* the ProductionPlan it returned
    laterNow,          \* the wall clock of the repeated call
    laterPlan,         \* the ProductionPlan of the repeated call
    forecastCall,      \* the arguments of the forecastDemand call
    forecastOut,       \* the ForecastResult it returned
    multiDayCall,      \* the arguments of the forecastMultiDay call
    multiDayOut,       \* the MultiDayForecast it returned
    uploadedFiles,     \* the store's uploadedFiles
    processedData,     \* the store's processedData
    dataStatus,        \* the store's dataStatus
    upPc,              \* "idle" | "dropped" | "removed": last handler of the upload page
    uploads            \* files handed to onDrop so far

fiscalVars == <<fiscalYearStart, fcPc, fiscalIn, calendarDate, fiscalOut, lastYearDate>>
holidayVars ==
    <<ctorHolidays, callerHolidays, shared, holidays, mutations, hePc, impactDate,
      impact, floatCall, floatDate, yearCall, yearOut>>
batchVars == <<boPc, batchCall, decision, wasteCall, wasteOut>>
planVars ==
    <<pgPc, planCall, plan, laterNow, laterPlan, forecastCall, forecastOut,
      multiDayCall, multiDayOut>>
uploadVars == <<uploadedFiles, processedData, dataStatus, upPc, uploads>>
vars == <<unit, fiscalVars, holidayVars, batchVars, planVars, uploadVars>>

(***************************************************************************)
(* Bounds of the model.                                                    *)
(***************************************************************************)
MinFiscalYear == 2024
MaxFiscalYear == 2026
\* getHolidayImpactFactor is asked about every day of FirstYear .. LastYear
FirstYear == 2024
LastYear == 2025
\* holiday-set changes made to one engine
MaxMutations == 1
\* the optimizer's inputs
MaxDemand == 20
MaxShelfLife == 3
MaxDaysAhead == 3
MaxBatchSize == 30
\* the days forecastMultiDay is asked for
MaxForecastDays == 3
\* the files handed to the upload page in all, and in one drop
MaxUploads == 3
MaxDrop == 2

(***************************************************************************)
(* Fixed-point helpers.                                                    *)
(***************************************************************************)
Scale == 1000
NaN == -2000000000

IsNaN(x) == x = NaN
Max(a, b) == IF a >= b THEN a ELSE b
Min(a, b) == IF a <= b THEN a ELSE b
Abs(a) == IF a < 0 THEN -a ELSE a
\* Math.ceil(a / b) for integers a >= 0, b > 0
CeilDiv(a, b) == (a + b - 1) \div b

\* F(value), the value worked out once before F uses it
Bind(value, F(_)) == CHOOSE result \in {F(x) : x \in {value}} : TRUE

(***************************************************************************)
(* JavaScript Date arithmetic on local calendar days.                      *)
(***************************************************************************)
IsLeapYear(y) == (y % 4 = 0 /\ y % 100 # 0) \/ y % 400 = 0

DaysBeforeYear(y) ==
    365 * (y - 1) + ((y - 1) \div 4) - ((y - 1) \div 100) + ((y - 1) \div 400)

DaysInMonth(y, m) ==
    IF m = 2 THEN (IF IsLeapYear(y) THEN 29 ELSE 28)
    ELSE IF m \in {4, 6, 9, 11} THEN 30 ELSE 31

RECURSIVE DaysBeforeMonth(_, _)
DaysBeforeMonth(y, m) ==
    IF m <= 1 THEN 0 ELSE DaysBeforeMonth(y, m - 1) + DaysInMonth(y, m - 1)

\* new Date(y, m - 1, d): a day past the month's end rolls into the next month
MakeDate(y, m, d) == DaysBeforeYear(y) + DaysBeforeMonth(y, m) + (d - 1)

\* Date.getFullYear()
GetFullYear(date) ==
    CHOOSE y \in ((date \div 366) - 1)..((date \div 365) + 2) :
        DaysBeforeYear(y) <= date /\ date < DaysBeforeYear(y + 1)

\* Date.getMonth() + 1
GetMonth(date) ==
    LET y == GetFullYear(date)
        n == date - DaysBeforeYear(y)
    IN  CHOOSE m \in 1..12 :
            DaysBeforeMonth(y, m) <= n /\ n < DaysBeforeMonth(y, m) + DaysInMonth(y, m)

\* Date.getDate()
GetDate(date) ==
    LET y == GetFullYear(date)
    IN  date - DaysBeforeYear(y) - DaysBeforeMonth(y, GetMonth(date)) + 1

\* Date.getDay(): 0 = Sunday
GetDay(date) == (date + 1) % 7

(***************************************************************************)
(* FiscalCalendar                                                          *)
(***************************************************************************)
\* the fiscal-year starts a planner is configured with (the store's default
\* is September 2)
FiscalYearStarts == {[month |-> 9, day |-> 2], [month |-> 1, day |-> 1]}

FiscalCoordinates ==
    [fiscalYear : MinFiscalYear..MaxFiscalYear, fiscalPeriod : 1..13,
     fiscalWeek : 1..4, fiscalDay : 1..7]

NoFiscalDate == [fiscalYear |-> 0, fiscalPeriod |-> 0, fiscalWeek |-> 0, fiscalDay |-> 0]

\* new Date(this.fiscalYearStart).setFullYear(year); the constructor builds the
\* start in 2024, a leap year, so every month/day of the settings exists there
FiscalStartInYear(start, year) == MakeDate(year, start.month, start.day)

convertToCalendarDate(start, fiscalYear, fiscalPeriod, fiscalWeek, fiscalDay) ==
    LET fiscalYearStartDate == FiscalStartInYear(start, fiscalYear - 1)
        daysFromFiscalStart ==
            (fiscalPeriod - 1) * 28 + (fiscalWeek - 1) * 7 + (fiscalDay - 1)
    IN  fiscalYearStartDate + daysFromFiscalStart

\* the fiscal year the code settles on (before its final + 1) and its start
FiscalYearOf(start, date) ==
    LET year == GetFullYear(date)
        thisStart == FiscalStartInYear(start, year - 1)
    IN  IF date < thisStart
        THEN [fiscalYear |-> year - 1,
              fiscalYearStart |-> FiscalStartInYear(start, year - 2)]
        ELSE IF date >= FiscalStartInYear(start, year)
        THEN [fiscalYear |-> year + 1,
              fiscalYearStart |-> FiscalStartInYear(start, year)]
        ELSE [fiscalYear |-> year, fiscalYearStart |-> thisStart]

convertToFiscalDate(start, date) ==
    LET fy == FiscalYearOf(start, date)
        daysDifference == date - fy.fiscalYearStart
        fiscalPeriod == (daysDifference \div 28) + 1
        remainingDays == daysDifference % 28
        fiscalWeek == (remainingDays \div 7) + 1
        fiscalDay == (remainingDays % 7) + 1
    IN  [fiscalYear |-> fy.fiscalYear + 1,
         fiscalPeriod |-> Max(1, Min(13, fiscalPeriod)),
         fiscalWeek |-> Max(1, Min(4, fiscalWeek)),
         fiscalDay |-> Max(1, Min(7, fiscalDay))]

\* the conversions do not throw for a Date, so the catch is never entered
getCorrespondingDateLastYear(start, currentDate) ==
    LET fiscalDate == convertToFiscalDate(start, currentDate)
        lastYearFiscalDate == [fiscalDate EXCEPT !.fiscalYear = @ - 1]
    IN  convertToCalendarDate(start, lastYearFiscalDate.fiscalYear,
            lastYearFiscalDate.fiscalPeriod, lastYearFiscalDate.fiscalWeek,
            lastYearFiscalDate.fiscalDay)

\* the dates callers convert: every day of two calendar years
FiscalQueryDates == MakeDate(MinFiscalYear, 1, 1)..MakeDate(MinFiscalYear + 1, 12, 31)

InitFiscalCalendar ==
    /\ fiscalYearStart \in FiscalYearStarts
    /\ fcPc = "idle"
    /\ fiscalIn = NoFiscalDate
    /\ calendarDate = 0
    /\ fiscalOut = NoFiscalDate
    /\ lastYearDate = 0

\* a caller converts fiscal coordinates to a Date
ConvertToCalendarDate ==
    /\ unit = "fiscal"
    /\ fcPc = "idle"
    /\ \E f \in FiscalCoordinates :
        /\ fiscalIn' = f
        /\ calendarDate' = convertToCalendarDate(fiscalYearStart, f.fiscalYear,
                               f.fiscalPeriod, f.fiscalWeek, f.fiscalDay)
    /\ fcPc' = "calendar"
    /\ fiscalOut' = NoFiscalDate
    /\ UNCHANGED <<unit, uploadVars, planVars, fiscalYearStart, lastYearDate, holidayVars, batchVars>>

\* ... and converts the Date it got back
ConvertToFiscalDate ==
    /\ unit = "fiscal"
    /\ fcPc = "calendar"
    /\ fiscalOut' = convertToFiscalDate(fiscalYearStart, calendarDate)
    /\ fcPc' = "fiscal"
    /\ UNCHANGED <<unit, uploadVars, planVars, fiscalYearStart, fiscalIn, calendarDate, lastYearDate,
                   holidayVars, batchVars>>

\* a caller converts a Date of its own
ConvertDateToFiscalDate ==
    /\ unit = "fiscal"
    /\ fcPc = "idle"
    /\ \E date \in FiscalQueryDates :
        /\ calendarDate' = date
        /\ fiscalOut' = convertToFiscalDate(fiscalYearStart, date)
    /\ fcPc' = "converted"
    /\ UNCHANGED <<unit, uploadVars, planVars, fiscalYearStart, fiscalIn, lastYearDate, holidayVars,
                   batchVars>>

GetCorrespondingDateLastYear ==
    /\ unit = "fiscal"
    /\ fcPc = "idle"
    /\ \E date \in FiscalQueryDates :
        /\ calendarDate' = date
        /\ lastYearDate' = getCorrespondingDateLastYear(fiscalYearStart, date)
    /\ fcPc' = "lastyear"
    /\ UNCHANGED <<unit, uploadVars, planVars, fiscalYearStart, fiscalIn, fiscalOut, holidayVars,
                   batchVars>>

NextFiscal ==
    \/ ConvertToCalendarDate
    \/ ConvertToFiscalDate
    \/ ConvertDateToFiscalDate
    \/ GetCorrespondingDateLastYear

(***************************************************************************)
(* HolidayEngine                                                           *)
(***************************************************************************)
\* Holiday (types/index.ts).  salesMultiplier is in thousandths; an absent
\* month or day is 0 and an absent rule is the empty sequence, all of them
\* falsy as in the code.  A rule is the sequence of its blank-separated words.
Fixed(id, name, month, day, before, after, multiplier, active) ==
    [id |-> id, name |-> name, type |-> "fixed", month |-> month, day |-> day,
     rule |-> <<>>, daysBefore |-> before, daysAfter |-> after,
     salesMultiplier |-> multiplier, isActive |-> active]

Floating(id, name, month, rule, before, after, multiplier, active) ==
    [id |-> id, name |-> name, type |-> "floating", month |-> month, day |-> 0,
     rule |-> rule, daysBefore |-> before, daysAfter |-> after,
     salesMultiplier |-> multiplier, isActive |-> active]

Thanksgiving ==
    Floating("thanksgiving", "Thanksgiving", 11, <<"fourth", "thursday">>, 3, 1, 1800, TRUE)
BlackFriday ==
    Floating("black-friday", "Black Friday", 11, <<"fourth", "friday">>, 0, 0, 800, TRUE)

getDefaultHolidays ==
    << Fixed("new-years-day", "New Year's Day", 1, 1, 2, 1, 700, TRUE),
       Floating("martin-luther-king-day", "Martin Luther King Jr. Day", 1,
                <<"third", "monday">>, 0, 0, 1000, TRUE),
       Floating("presidents-day", "Presidents Day", 2, <<"third", "monday">>, 0, 0, 1100, TRUE),
       Floating("memorial-day", "Memorial Day", 5, <<"last", "monday">>, 1, 0, 1300, TRUE),
       Fixed("independence-day", "Independence Day", 7, 4, 2, 1, 1400, TRUE),
       Floating("labor-day", "Labor Day", 9, <<"first", "monday">>, 1, 0, 1200, TRUE),
       Floating("columbus-day", "Columbus Day", 10, <<"second", "monday">>, 0, 0, 1000, FALSE),
       Fixed("halloween", "Halloween", 10, 31, 2, 0, 1200, TRUE),
       Thanksgiving,
       BlackFriday,
       Fixed("christmas-eve", "Christmas Eve", 12, 24, 2, 0, 1500, TRUE),
       Fixed("christmas", "Christmas Day", 12, 25, 0, 1, 300, TRUE),
       Fixed("new-years-eve", "New Year's Eve", 12, 31, 1, 0, 1600, TRUE) >>

\* constructor: an empty array is replaced by the default holidays; any other
\* array is kept as it is, not copied (the variable shared)
NewHolidayEngine(given) == IF Len(given) > 0 THEN given ELSE getDefaultHolidays

NoDate == -1

\* String.toLowerCase on the words a rule is written with
ToLowerCase(word) ==
    CASE word = "Fourth" -> "fourth"
      [] word = "Thursday" -> "thursday"
      [] word = "Last" -> "last"
      [] word = "Monday" -> "monday"
      [] OTHER -> word

DayNames == <<"sunday", "monday", "tuesday", "wednesday", "thursday", "friday", "saturday">>
Occurrences == {"first", "second", "third", "fourth", "last"}

\* days.indexOf(dayName)
getDayOfWeekNumber(dayName) ==
    IF \E i \in 1..7 : DayNames[i] = dayName
    THEN (CHOOSE i \in 1..7 : DayNames[i] = dayName) - 1
    ELSE -1

getOccurrenceNumber(occurrence) ==
    CASE occurrence = "first" -> 1
      [] occurrence = "second" -> 2
      [] occurrence = "third" -> 3
      [] occurrence = "fourth" -> 4
      [] OTHER -> 1

\* getNthDayOfWeekInMonth without the wrap of the weekday difference into 0..6
getNthDayOfWeekInMonth_NoWrap(year, month, dayOfWeek, occurrence) ==
    MakeDate(year, month, 1)
        + (dayOfWeek - GetDay(MakeDate(year, month, 1))) + (occurrence - 1) * 7

\* month is 1-based here (the code's 0-based month + 1)
getNthDayOfWeekInMonth(year, month, dayOfWeek, occurrence) ==
    LET firstDay == MakeDate(year, month, 1)
        firstDayOfWeek == GetDay(firstDay)
        daysToAdd == ((dayOfWeek - firstDayOfWeek + 7) % 7) + (occurrence - 1) * 7
    IN  firstDay + daysToAdd

getLastDayOfWeekInMonth(year, month, dayOfWeek) ==
    LET lastDay == MakeDate(year, month + 1, 0)
        lastDayOfWeek == GetDay(lastDay)
        daysToSubtract == (lastDayOfWeek - dayOfWeek + 7) % 7
    IN  lastDay - daysToSubtract

\* rule.match(/^(first|second|third|fourth|last)\s+(monday|...|sunday)$/)
RuleMatches(rule) ==
    /\ Len(rule) = 2
    /\ rule[1] \in Occurrences
    /\ \E i \in 1..7 : DayNames[i] = rule[2]

calculateFloatingHoliday(holiday, year) ==
    IF holiday.rule = <<>> \/ holiday.month = 0 THEN NoDate
    ELSE LET rule == [i \in 1..Len(holiday.rule) |-> ToLowerCase(holiday.rule[i])]
         IN  IF ~RuleMatches(rule) THEN NoDate
             ELSE LET targetDayOfWeek == getDayOfWeekNumber(rule[2])
                  IN  IF rule[1] = "last"
                      THEN getLastDayOfWeekInMonth(year, holiday.month, targetDayOfWeek)
                      ELSE getNthDayOfWeekInMonth(year, holiday.month, targetDayOfWeek,
                                                  getOccurrenceNumber(rule[1]))

calculateRelativeHoliday(holiday, year) == NoDate

calculateHolidayDate(holiday, year) ==
    CASE holiday.type = "fixed" ->
            IF holiday.month # 0 /\ holiday.day # 0
            THEN MakeDate(year, holiday.month, holiday.day)
            ELSE NoDate
      [] holiday.type = "floating" -> calculateFloatingHoliday(holiday, year)
      [] holiday.type = "relative" -> calculateRelativeHoliday(holiday, year)
      [] OTHER -> NoDate

\* getHolidaysForYear without its isActive filter
getHolidaysForYear_KeepInactive(hs, year) ==
    LET instances == [i \in 1..Len(hs) |->
                        [holiday |-> hs[i],
                         date |-> calculateHolidayDate(hs[i], year),
                         year |-> year]]
    IN  SelectSeq(instances, LAMBDA inst : inst.date # NoDate)

getHolidaysForYear(hs, year) ==
    LET active == SelectSeq(hs, LAMBDA h : h.isActive)
        instances == [i \in 1..Len(active) |->
                        [holiday |-> active[i],
                         date |-> calculateHolidayDate(active[i], year),
                         year |-> year]]
    IN  SelectSeq(instances, LAMBDA inst : inst.date # NoDate)

\* Math.max(0, 1 - distance / maxDistance), in thousandths; 0 / 0 is NaN and
\* Math.max(0, NaN) is NaN; x / 0 for x > 0 is Infinity, which leaves 0
proximityFactor(distance, maxDistance) ==
    IF maxDistance = 0
    THEN (IF distance = 0 THEN NaN ELSE 0)
    ELSE Max(0, Scale - ((distance * Scale) \div maxDistance))

\* salesMultiplier * proximityFactor
Impact(holiday, distance) ==
    LET maxDistance == Max(holiday.daysBefore, holiday.daysAfter)
        proximity == proximityFactor(distance, maxDistance)
    IN  IF IsNaN(proximity) THEN NaN
        ELSE (holiday.salesMultiplier * proximity) \div Scale

InImpactZone(holiday, daysDifference) ==
    /\ daysDifference >= -holiday.daysAfter
    /\ daysDifference <= holiday.daysBefore

\* Array.prototype.sort is stable: an entry goes behind those at most as far
InsertByDistance(sorted, entry) ==
    LET k == Cardinality({i \in 1..Len(sorted) :
                             Abs(sorted[i].distance) <= Abs(entry.distance)})
    IN  SubSeq(sorted, 1, k) \o <<entry>> \o SubSeq(sorted, k + 1, Len(sorted))

RECURSIVE SortByDistance(_)
SortByDistance(entries) ==
    IF entries = <<>> THEN <<>>
    ELSE InsertByDistance(SortByDistance(SubSeq(entries, 1, Len(entries) - 1)),
                          entries[Len(entries)])

findNearbyHolidays(date, instances) ==
    LET near == SelectSeq(instances,
                    LAMBDA inst : InImpactZone(inst.holiday, date - inst.date))
        nearbyHolidays ==
            [i \in 1..Len(near) |->
                [holiday |-> near[i].holiday,
                 distance |-> date - near[i].date,
                 impact |-> Impact(near[i].holiday, Abs(date - near[i].date))]]
    IN  SortByDistance(nearbyHolidays)

RECURSIVE ISqrtIn(_, _, _)
ISqrtIn(n, lo, hi) ==
    IF lo >= hi THEN lo
    ELSE LET mid == (lo + hi + 1) \div 2
         IN  IF mid * mid <= n THEN ISqrtIn(n, mid, hi) ELSE ISqrtIn(n, lo, mid - 1)

\* floor(Math.sqrt(n)) for an integer n >= 0
ISqrt(n) == ISqrtIn(n, 0, Min(n, 46340))

\* the sum over the affected holidays of (impact - 1) * |impact - 1|, in millionths
RECURSIVE SumDeviation(_)
SumDeviation(affected) ==
    IF affected = <<>> THEN 0
    ELSE (affected[1].impact - Scale) * Abs(affected[1].impact - Scale)
         + SumDeviation(Tail(affected))

\* the sum of the weights |impact - 1|, in thousandths
RECURSIVE SumWeight(_)
SumWeight(affected) ==
    IF affected = <<>> THEN 0
    ELSE Abs(affected[1].impact - Scale) + SumWeight(Tail(affected))

\* Math.max(0.1, Math.min(5.0, x)); both return NaN for NaN
ClampFactor(x) == IF IsNaN(x) THEN NaN ELSE Max(100, Min(5000, x))

calculateCombinedImpact(affected) ==
    IF Len(affected) = 0 THEN Scale
    ELSE IF \E i \in 1..Len(affected) : IsNaN(affected[i].impact)
    THEN ClampFactor(NaN)
    ELSE LET totalWeight == SumWeight(affected)
             combinedFactor ==
                IF totalWeight > 0
                THEN Scale + (SumDeviation(affected) \div ISqrt(totalWeight * Scale))
                ELSE Scale + (SumDeviation(affected) \div Scale)
         IN  ClampFactor(combinedFactor)

NoHolidayImpactText == "No holiday impact"

ImpactPhrase(entry) ==
    [days |-> Abs(entry.distance),
     direction |-> IF entry.distance < 0 THEN "before"
                   ELSE IF entry.distance > 0 THEN "after" ELSE "on",
     name |-> entry.holiday.name,
     impactText |-> IF IsNaN(entry.impact) THEN "normal"
                    ELSE IF entry.impact > 1100 THEN "increased"
                    ELSE IF entry.impact < 900 THEN "decreased" ELSE "normal"]

\* the text, as the fixed sentence or the list of the phrases it joins
generateImpactExplanation(affected) ==
    IF Len(affected) = 0
    THEN [text |-> NoHolidayImpactText, parts |-> <<>>]
    ELSE [text |-> "", parts |-> [i \in 1..Len(affected) |-> ImpactPhrase(affected[i])]]

getHolidayImpactFactor(hs, date) ==
    LET targetYear == GetFullYear(date)
        affectedHolidays == findNearbyHolidays(date, getHolidaysForYear(hs, targetYear))
    IN  [factor |-> calculateCombinedImpact(affectedHolidays),
         affectedHolidays |-> affectedHolidays,
         explanation |-> generateImpactExplanation(affectedHolidays)]

\* { ...holiday, ...updates }
MergeHoliday(holiday, updates) ==
    [f \in DOMAIN holiday |-> IF f \in DOMAIN updates THEN updates[f] ELSE holiday[f]]

\* this.holidays.push(holiday): the array itself grows
addHoliday(hs, holiday) == Append(hs, holiday)

updateHoliday(hs, id, updates) ==
    IF \E i \in 1..Len(hs) : hs[i].id = id
    THEN LET index == CHOOSE i \in 1..Len(hs) :
                        hs[i].id = id /\ \A j \in 1..(i - 1) : hs[j].id # id
         IN  [hs EXCEPT ![index] = MergeHoliday(hs[index], updates)]
    ELSE hs

removeHoliday(hs, id) == SelectSeq(hs, LAMBDA h : h.id # id)

\* [...this.holidays]: a new array of the same holidays
getAllHolidays(hs) == [i \in 1..Len(hs) |-> hs[i]] \o <<>>

\* String.trim of a holiday name: the names that are all white space
BlankNames == {"", " ", "  "}
Trim(name) == IF name \in BlankNames THEN "" ELSE name

NameRequired == "Holiday name is required"
FixedMonthInvalid == "Fixed holidays must have a valid month (1-12)"
FixedDayInvalid == "Fixed holidays must have a valid day (1-31)"
FloatingMonthInvalid == "Floating holidays must have a valid month (1-12)"
FloatingRuleRequired == "Floating holidays must have a rule (e.g., \"fourth thursday\")"
MultiplierOutOfRange == "Sales multiplier must be between 0.1 and 5.0"
DaysBeforeOutOfRange == "Days before must be between 0 and 14"
DaysAfterOutOfRange == "Days after must be between 0 and 14"

\* the errors in the order the code pushes them
validateHoliday(holiday) ==
    LET When(violated, error) == IF violated THEN <<error>> ELSE <<>>
    IN  When(Trim(holiday.name) = "", NameRequired)
        \o When(holiday.type = "fixed" /\ (holiday.month < 1 \/ holiday.month > 12),
                FixedMonthInvalid)
        \o When(holiday.type = "fixed" /\ (holiday.day < 1 \/ holiday.day > 31),
                FixedDayInvalid)
        \o When(holiday.type = "floating" /\ (holiday.month < 1 \/ holiday.month > 12),
                FloatingMonthInvalid)
        \o When(holiday.type = "floating" /\ holiday.rule = <<>>, FloatingRuleRequired)
        \o When(/\ ~IsNaN(holiday.salesMultiplier)
                /\ (holiday.salesMultiplier < 100 \/ holiday.salesMultiplier > 5000),
                MultiplierOutOfRange)
        \o When(holiday.daysBefore < 0 \/ holiday.daysBefore > 14, DaysBeforeOutOfRange)
        \o When(holiday.daysAfter < 0 \/ holiday.daysAfter > 14, DaysAfterOutOfRange)

\* The rule sets engines are built with: none, the Thanksgiving rule alone,
\* Thanksgiving with Black Friday, and rules at the ends of the validated
\* ranges (windows 0 and 14, multipliers 0.1, 2.0 and 5.0), active or not.
ConstructorInputs ==
    { <<>>,
      <<Thanksgiving>>,
      <<Thanksgiving, BlackFriday>>,
      <<Fixed("boxing-day", "Boxing Day", 12, 26, 0, 0, 800, TRUE)>>,
      <<Fixed("peak-a", "Peak A", 12, 24, 14, 14, 5000, TRUE),
        Fixed("peak-b", "Peak B", 12, 26, 14, 14, 5000, TRUE)>>,
      <<Fixed("slump", "Slump", 12, 26, 2, 2, 100, TRUE)>>,
      <<Fixed("double", "Double", 7, 15, 1, 1, 2000, TRUE)>>,
      <<Fixed("closed", "Closed", 12, 26, 3, 3, 300, FALSE)>> }

AddInputs ==
    { Fixed("boxing-day", "Boxing Day", 12, 26, 1, 1, 2000, TRUE),
      Fixed("broken", "", 13, 0, 20, 0, 9900, TRUE),
      Floating("fifth-monday", "Fifth Monday", 3, <<"fifth", "monday">>, 1, 1, 1200,
               TRUE) }
UpdateIds == {"thanksgiving", "missing"}
UpdateInputs == { [isActive |-> FALSE], [daysBefore |-> 20] }
RemoveIds == {"thanksgiving", "boxing-day"}

QueryDates == MakeDate(FirstYear, 1, 1)..MakeDate(LastYear, 12, 31)

NoImpact == [factor |-> 0, affectedHolidays |-> <<>>,
             explanation |-> [text |-> "", parts |-> <<>>]]

NoFloatCall == [holiday |-> Thanksgiving, year |-> 0]

InitHolidayEngine ==
    /\ ctorHolidays \in ConstructorInputs
    /\ callerHolidays = ctorHolidays
    /\ shared = (Len(ctorHolidays) > 0)
    /\ holidays = NewHolidayEngine(ctorHolidays)
    /\ mutations = 0
    /\ hePc = "idle"
    /\ impactDate = 0
    /\ impact = NoImpact
    /\ floatCall = NoFloatCall
    /\ floatDate = NoDate
    /\ yearCall = 0
    /\ yearOut = <<>>

AddHoliday ==
    /\ unit = "holiday"
    /\ hePc = "idle"
    /\ mutations < MaxMutations
    /\ \E h \in AddInputs : holidays' = addHoliday(holidays, h)
    /\ callerHolidays' = IF shared THEN holidays' ELSE callerHolidays
    /\ mutations' = mutations + 1
    /\ UNCHANGED <<unit, uploadVars, planVars, fiscalVars, batchVars, ctorHolidays, shared, hePc,
                   impactDate, impact, floatCall, floatDate, yearCall, yearOut>>

UpdateHoliday ==
    /\ unit = "holiday"
    /\ hePc = "idle"
    /\ mutations < MaxMutations
    /\ \E id \in UpdateIds, updates \in UpdateInputs :
            holidays' = updateHoliday(holidays, id, updates)
    /\ callerHolidays' = IF shared THEN holidays' ELSE callerHolidays
    /\ mutations' = mutations + 1
    /\ UNCHANGED <<unit, uploadVars, planVars, fiscalVars, batchVars, ctorHolidays, shared, hePc,
                   impactDate, impact, floatCall, floatDate, yearCall, yearOut>>

RemoveHoliday ==
    /\ unit = "holiday"
    /\ hePc = "idle"
    /\ mutations < MaxMutations
    /\ \E id \in RemoveIds : holidays' = removeHoliday(holidays, id)
    /\ shared' = FALSE
    /\ mutations' = mutations + 1
    /\ UNCHANGED <<unit, uploadVars, planVars, fiscalVars, batchVars, ctorHolidays, callerHolidays,
                   hePc, impactDate, impact, floatCall, floatDate, yearCall, yearOut>>

\* a caller asks for the impact on one date and keeps the answer
GetHolidayImpactFactor ==
    /\ unit = "holiday"
    /\ hePc = "idle"
    /\ \E date \in QueryDates :
        /\ impactDate' = date
        /\ impact' = getHolidayImpactFactor(holidays, date)
    /\ hePc' = "impact"
    /\ UNCHANGED <<unit, uploadVars, planVars, fiscalVars, batchVars, ctorHolidays, callerHolidays,
                   shared, holidays, mutations, floatCall, floatDate, yearCall, yearOut>>

\* one floating rule resolved for one year
CalculateFloatingHoliday ==
    /\ unit = "holiday"
    /\ hePc = "idle"
    /\ \E year \in FirstYear..LastYear, month \in 1..12, occurrence \in Occurrences,
          d \in 1..7 :
        /\ floatCall' = [holiday |-> Floating("probe", "Probe", month,
                                              <<occurrence, DayNames[d]>>, 1, 1, 1200,
                                              TRUE),
                         year |-> year]
        /\ floatDate' = calculateFloatingHoliday(floatCall'.holiday, year)
    /\ hePc' = "resolved"
    /\ UNCHANGED <<unit, uploadVars, planVars, fiscalVars, batchVars, ctorHolidays, callerHolidays,
                   shared, holidays, mutations, impactDate, impact, yearCall, yearOut>>

GetHolidaysForYear ==
    /\ unit = "holiday"
    /\ hePc = "idle"
    /\ \E year \in FirstYear..LastYear :
        /\ yearCall' = year
        /\ yearOut' = getHolidaysForYear(holidays, year)
    /\ hePc' = "year"
    /\ UNCHANGED <<unit, uploadVars, planVars, fiscalVars, batchVars, ctorHolidays, callerHolidays,
                   shared, holidays, mutations, impactDate, impact, floatCall, floatDate>>

NextHoliday ==
    \/ AddHoliday
    \/ UpdateHoliday
    \/ RemoveHoliday
    \/ GetHolidayImpactFactor
    \/ CalculateFloatingHoliday
    \/ GetHolidaysForYear

(***************************************************************************)
(* BatchOptimizer                                                          *)
(*                                                                         *)
(* Unit counts (demand, stock, batch sizes, cost) are integers; efficiency,*)
(* waste risk, confidence, score and hours are in thousandths.  A          *)
(* reasoning is the fixed wording of its template, without the numbers the *)
(* code interpolates.                                                      *)
(***************************************************************************)
\* x || fallback for a number x
OrElse(x, fallback) == IF x = 0 \/ IsNaN(x) THEN fallback ELSE x

\* Math.ceil(Math.sqrt(n)) for an integer n >= 0
CeilSqrt(n) == LET r == ISqrt(n) IN IF r * r = n THEN r ELSE r + 1

calculateBatchCost(batchSize) == 50 + batchSize * 2

\* Math.max(0.1, totalDemand / daysAhead) as the fraction num / den
ConsumptionRate(totalDemand, daysAhead) ==
    IF 10 * totalDemand >= daysAhead
    THEN [num |-> totalDemand, den |-> daysAhead]
    ELSE [num |-> 1, den |-> 10]

\* calculateWasteRisk with the excess ratio left out of the expiration branch
calculateWasteRisk_ExpirationOnly(batchSize, totalDemand, shelfLife, daysAhead) ==
    IF batchSize <= totalDemand THEN 0
    ELSE LET excess == batchSize - totalDemand
             excessRatio == (excess * Scale) \div batchSize
             rate == ConsumptionRate(totalDemand, daysAhead)
             daysToConsume == (batchSize * rate.den * Scale) \div rate.num
         IN  IF batchSize * rate.den > shelfLife * rate.num
             THEN LET expirationRisk ==
                          (daysToConsume - shelfLife * Scale) \div shelfLife
                  IN  Min(Scale, expirationRisk \div 2)
             ELSE (excessRatio * 3) \div 10

calculateWasteRisk(batchSize, totalDemand, shelfLife, daysAhead) ==
    IF batchSize <= totalDemand THEN 0
    ELSE LET excess == batchSize - totalDemand
             excessRatio == (excess * Scale) \div batchSize
             rate == ConsumptionRate(totalDemand, daysAhead)
             \* daysToConsume = batchSize * rate.den / rate.num
             daysToConsume == (batchSize * rate.den * Scale) \div rate.num
         IN  IF batchSize * rate.den > shelfLife * rate.num
             THEN LET expirationRisk ==
                          (daysToConsume - shelfLife * Scale) \div shelfLife
                  IN  Min(Scale, excessRatio + (expirationRisk \div 2))
             ELSE (excessRatio * 3) \div 10

calculateShelfLifeConstrainedMax(totalDemand, shelfLife, daysAhead) ==
    Max(totalDemand, CeilDiv(totalDemand * Min(shelfLife, daysAhead + 1), daysAhead))

calculateEconomicBatchQuantity(demand, config) ==
    LET minBatch == OrElse(config.minBatchSize, 10)
    IN  Max(minBatch, CeilSqrt(demand * 2))

createBatchOption(size, efficiency, wasteRisk, reasoning) ==
    [size |-> size,
     efficiency |-> Max(0, efficiency),
     wasteRisk |-> Max(0, Min(Scale, wasteRisk)),
     cost |-> calculateBatchCost(size),
     reasoning |-> reasoning,
     score |-> 0]

MinBatchCovers == "Min batch covers demand"
MinBatchShort == "Min batch - will need additional production soon"
ExactNetDemand == "Exact net demand"
TotalDemandCovers == "Total demand - covers all needs"
ShelfLifeOptimized == "Shelf-life optimized"
EconomicBatch == "Economic batch balances setup costs and inventory"
SufficientStock == "Sufficient stock covers demand"
NoProductionNeeded == "No production needed"

\* size / Math.max(1, netDemand)
EfficiencyOf(size, netDemand) == (size * Scale) \div Max(1, netDemand)

generateBatchOptions(netDemand, totalDemand, config, multiDayDemand) ==
    LET minBatch == OrElse(config.minBatchSize, 10)
        shelfLife == OrElse(config.shelfLife, 3)
        daysAhead == OrElse(multiDayDemand.daysAhead, 3)
        Option(size, reasoning) ==
            createBatchOption(size, EfficiencyOf(size, netDemand),
                calculateWasteRisk(size, totalDemand, shelfLife, daysAhead), reasoning)
        option1 ==
            IF minBatch > 0
            THEN <<Option(minBatch,
                       IF minBatch >= netDemand THEN MinBatchCovers ELSE MinBatchShort)>>
            ELSE <<>>
        option2 ==
            IF netDemand > 0
            THEN <<createBatchOption(netDemand, Scale,
                       calculateWasteRisk(netDemand, totalDemand, shelfLife, daysAhead),
                       ExactNetDemand)>>
            ELSE <<>>
        option3 ==
            IF totalDemand > netDemand
            THEN <<Option(totalDemand, TotalDemandCovers)>>
            ELSE <<>>
        maxSafeProduction ==
            calculateShelfLifeConstrainedMax(totalDemand, shelfLife, daysAhead)
        option4 ==
            IF maxSafeProduction > netDemand /\ maxSafeProduction # totalDemand
            THEN <<Option(maxSafeProduction, ShelfLifeOptimized)>>
            ELSE <<>>
        listed == option1 \o option2 \o option3 \o option4
        economicBatch == calculateEconomicBatchQuantity(netDemand, config)
        option5 ==
            IF /\ economicBatch > minBatch
               /\ economicBatch # netDemand
               /\ ~\E i \in 1..Len(listed) : Abs(listed[i].size - economicBatch) < 2
            THEN <<Option(economicBatch, EconomicBatch)>>
            ELSE <<>>
    IN  SelectSeq(listed \o option5, LAMBDA option : option.size > 0)

\* a score that does not start from the option's efficiency
scoreBatchOption_WithoutEfficiency(option, multiDayDemand, config, currentStock) ==
    LET minBatchBonus ==
            IF option.size >= OrElse(config.minBatchSize, 0) THEN 200 ELSE 0
        smallBatchPenalty ==
            IF 2 * option.size < OrElse(config.minBatchSize, 10) THEN 300 ELSE 0
        coverageBonus ==
            IF 10 * option.size >= 9 * (multiDayDemand.totalDemand + currentStock)
            THEN 100 ELSE 0
    IN  Max(0, minBatchBonus - option.wasteRisk * 3 - smallBatchPenalty
               + coverageBonus + multiDayDemand.confidenceScore \div 10)

scoreBatchOption(option, multiDayDemand, config, currentStock) ==
    LET wastePenalty == option.wasteRisk * 3
        minBatchBonus ==
            IF option.size >= OrElse(config.minBatchSize, 0) THEN 200 ELSE 0
        \* size < (minBatchSize || 10) * 0.5
        smallBatchPenalty ==
            IF 2 * option.size < OrElse(config.minBatchSize, 10) THEN 300 ELSE 0
        \* size >= (totalDemand + currentStock) * 0.9
        coverageBonus ==
            IF 10 * option.size >= 9 * (multiDayDemand.totalDemand + currentStock)
            THEN 100 ELSE 0
        confidenceBonus == multiDayDemand.confidenceScore \div 10
        divisor == Max(1, multiDayDemand.totalDemand)
        overproductionRatio == (option.size * Scale) \div divisor
        \* overproductionRatio > 1.5
        overproductionPenalty ==
            IF 2 * option.size > 3 * divisor
            THEN (overproductionRatio - 1500) \div 2 ELSE 0
    IN  Max(0, option.efficiency - wastePenalty + minBatchBonus - smallBatchPenalty
               + coverageBonus + confidenceBonus - overproductionPenalty)

\* a reduce that lets a later option of equal score replace the best one
RECURSIVE BestOption_LastBest(_, _)
BestOption_LastBest(best, rest) ==
    IF rest = <<>> THEN best
    ELSE BestOption_LastBest(IF rest[1].score >= best.score THEN rest[1] ELSE best,
                             Tail(rest))

\* scoredOptions.reduce((best, current) => current.score > best.score ? current : best)
RECURSIVE BestOption(_, _)
BestOption(best, rest) ==
    IF rest = <<>> THEN best
    ELSE BestOption(IF rest[1].score > best.score THEN rest[1] ELSE best, Tail(rest))

\* size / productivity, or 0 when productivity is not positive
HoursNeeded(size, productivity) ==
    IF productivity > 0 THEN (size * Scale) \div productivity ELSE 0

\* NetDemand with the stock on hand not subtracted
NetDemand_IgnoresStock(totalDemand, currentStock) == Max(0, totalDemand)

\* multiDayDemand.totalDemand - currentStock, floored at 0
NetDemand(totalDemand, currentStock) == Max(0, totalDemand - currentStock)

\* null, where the code is handed no object
Null == [null |-> TRUE]
IsNull(x) == DOMAIN x = {"null"}

\* a TypeError that leaves the method
Thrown == [thrown |-> "TypeError"]
IsThrown(x) == DOMAIN x = {"thrown"}

ErrorInBatchCalculation == "Error in batch calculation - using minimum batch size"
FallbackOption == "Fallback option"

\* a fallback that produces the default 10 whatever the fallback option says
createErrorBatchDecision_FixedSize(config) ==
    IF IsNull(config) THEN Thrown
    ELSE [recommendedBatchSize |-> 10,
          produceToday |-> 10,
          hoursNeeded |-> HoursNeeded(10, config.productivity),
          reasoning |-> ErrorInBatchCalculation,
          options |-> <<createBatchOption(OrElse(config.minBatchSize, 10), Scale, 100,
                                          FallbackOption)>>,
          selectedOption |-> createBatchOption(OrElse(config.minBatchSize, 10), Scale,
                                               100, FallbackOption),
          efficiencyScore |-> 500,
          wasteRiskScore |-> 100]

\* reading config.minBatchSize of a null config throws
createErrorBatchDecision(config) ==
    IF IsNull(config) THEN Thrown
    ELSE LET fallbackSize == OrElse(config.minBatchSize, 10)
         IN  [recommendedBatchSize |-> fallbackSize,
              produceToday |-> fallbackSize,
              hoursNeeded |-> HoursNeeded(fallbackSize, config.productivity),
              reasoning |-> ErrorInBatchCalculation,
              options |-> <<createBatchOption(fallbackSize, Scale, 100, FallbackOption)>>,
              selectedOption |-> createBatchOption(fallbackSize, Scale, 100, FallbackOption),
              efficiencyScore |-> 500,
              wasteRiskScore |-> 100]

\* the try block for a multiDayDemand that is an object; generateBatchOptions
\* reads config.minBatchSize first, which throws for a null config
TryOptimizeBatchSize(multiDayDemand, currentStock, config) ==
    LET totalDemand == OrElse(multiDayDemand.totalDemand, 0)
        Scored(options) ==
            [i \in 1..Len(options) |->
                [options[i] EXCEPT !.score =
                    scoreBatchOption(options[i], multiDayDemand, config, currentStock)]]
            \o <<>>
        Decision(scoredOptions, bestOption) ==
            [recommendedBatchSize |-> bestOption.size,
             produceToday |-> bestOption.size,
             hoursNeeded |-> HoursNeeded(bestOption.size, config.productivity),
             reasoning |-> bestOption.reasoning,
             options |-> scoredOptions,
             selectedOption |-> bestOption,
             efficiencyScore |-> bestOption.efficiency,
             wasteRiskScore |-> bestOption.wasteRisk]
        Optimize(netDemand) ==
            IF netDemand <= 0
            THEN [recommendedBatchSize |-> 0,
                  produceToday |-> 0,
                  hoursNeeded |-> 0,
                  reasoning |-> SufficientStock,
                  options |-> <<>>,
                  selectedOption |-> createBatchOption(0, 0, 0, NoProductionNeeded),
                  efficiencyScore |-> Scale,
                  wasteRiskScore |-> 0]
            ELSE IF IsNull(config) THEN createErrorBatchDecision(config)
            ELSE Bind(generateBatchOptions(netDemand, totalDemand, config,
                                           multiDayDemand),
                    LAMBDA options :
                 Bind(Scored(options),
                    LAMBDA scoredOptions :
                 Bind(BestOption(scoredOptions[1], Tail(scoredOptions)),
                    LAMBDA bestOption : Decision(scoredOptions, bestOption))))
    IN  Bind(NetDemand(totalDemand, currentStock), Optimize)

\* reading multiDayDemand.totalDemand of null throws inside the try
optimizeBatchSize(multiDayDemand, currentStock, config) ==
    IF IsNull(multiDayDemand) THEN createErrorBatchDecision(config)
    ELSE TryOptimizeBatchSize(multiDayDemand, currentStock, config)

\* the inputs the optimizer is driven with
Demands == 0..MaxDemand
StockLevels == {0, 5, MaxDemand + 5}
ConfidenceScores == {0, 500, 800, 1000}
MinBatchSizes == {0, 5, 10, 15}
ShelfLives == 0..MaxShelfLife
DaysAheadValues == 0..MaxDaysAhead
Productivities == {0, 5}

MultiDayDemands ==
    [totalDemand : Demands, daysAhead : DaysAheadValues,
     confidenceScore : ConfidenceScores]
BatchConfigs ==
    [minBatchSize : MinBatchSizes, shelfLife : ShelfLives, productivity : Productivities]

NoDecision ==
    [recommendedBatchSize |-> 0, produceToday |-> 0, hoursNeeded |-> 0,
     reasoning |-> "", options |-> <<>>,
     selectedOption |-> createBatchOption(0, 0, 0, ""),
     efficiencyScore |-> 0, wasteRiskScore |-> 0]
NoBatchCall ==
    [multiDayDemand |-> [totalDemand |-> 0, daysAhead |-> 0, confidenceScore |-> 0],
     currentStock |-> 0,
     config |-> [minBatchSize |-> 0, shelfLife |-> 0, productivity |-> 0]]
NoWasteCall == [batchSize |-> 0, totalDemand |-> 0, shelfLife |-> 0, daysAhead |-> 0]

InitBatchOptimizer ==
    /\ boPc = "idle"
    /\ batchCall = NoBatchCall
    /\ decision = NoDecision
    /\ wasteCall = NoWasteCall
    /\ wasteOut = 0

OptimizeBatchSize ==
    /\ unit = "batch"
    /\ boPc = "idle"
    /\ \E md \in MultiDayDemands, stock \in StockLevels, config \in BatchConfigs :
        /\ batchCall' = [multiDayDemand |-> md, currentStock |-> stock, config |-> config]
        /\ decision' = optimizeBatchSize(md, stock, config)
    /\ boPc' = "decided"
    /\ UNCHANGED <<unit, uploadVars, planVars, fiscalVars, holidayVars, wasteCall, wasteOut>>

\* a call that hands over null for the demand, the config or both
OptimizeMalformed ==
    /\ unit = "batch"
    /\ boPc = "idle"
    /\ \E md \in MultiDayDemands \cup {Null}, stock \in StockLevels,
          config \in BatchConfigs \cup {Null} :
        /\ IsNull(md) \/ IsNull(config)
        /\ batchCall' = [multiDayDemand |-> md, currentStock |-> stock, config |-> config]
        /\ decision' = optimizeBatchSize(md, stock, config)
    /\ boPc' = "recovered"
    /\ UNCHANGED <<unit, uploadVars, planVars, fiscalVars, holidayVars, wasteCall, wasteOut>>

\* the waste risk of one candidate size, as generateBatchOptions asks for it
CalculateWasteRisk ==
    /\ unit = "batch"
    /\ boPc = "idle"
    /\ \E s \in 0..MaxBatchSize, t \in Demands,
          l \in 1..MaxShelfLife, d \in 1..MaxDaysAhead :
        /\ wasteCall' = [batchSize |-> s, totalDemand |-> t, shelfLife |-> l,
                         daysAhead |-> d]
        /\ wasteOut' = calculateWasteRisk(s, t, l, d)
    /\ boPc' = "risk"
    /\ UNCHANGED <<unit, uploadVars, planVars, fiscalVars, holidayVars, batchCall, decision>>

NextBatch == OptimizeBatchSize \/ OptimizeMalformed \/ CalculateWasteRisk

(***************************************************************************)
(* DemandForecaster                                                        *)
(*                                                                         *)
(* A sales record is [itemNumber, itemDescription, calendarDate,           *)
(* currentYearUnits, lastYearUnits, twoYearsAgoUnits, dataSource]; unit    *)
(* counts are integers, a missing twoYearsAgoUnits is NaN.  Demands,       *)
(* factors and confidences are in thousandths.  The wall clock the code    *)
(* reads with new Date() is the parameter now: the number of the current   *)
(* day, at a time of day after midnight.                                   *)
(***************************************************************************)
\* a * b for two numbers in thousandths
Times(a, b) == IF IsNaN(a) \/ IsNaN(b) THEN NaN ELSE (a * b) \div Scale

\* a + b
Plus(a, b) == IF IsNaN(a) \/ IsNaN(b) THEN NaN ELSE a + b

\* Math.max(0, x)
AtLeastZero(x) == IF IsNaN(x) THEN NaN ELSE Max(0, x)

\* Math.abs(x - 1.0)
Deviation(x) == IF IsNaN(x) THEN NaN ELSE Abs(x - Scale)

\* Math.round of a number in thousandths, in units
Round(x) == IF IsNaN(x) THEN NaN ELSE (x + 500) \div Scale

RECURSIVE Pow(_, _)
Pow(b, e) == IF e = 0 THEN 1 ELSE b * Pow(b, e - 1)

\* f[1] + ... + f[n]
RECURSIVE SumTo(_, _)
SumTo(f, n) == IF n = 0 THEN 0 ELSE f[n] + SumTo(f, n - 1)

getDefaultSeasonalFactors ==
    <<800, 900, 1000, 1100, 1200, 1100, 1300, 1200, 1000, 1100, 1400, 1300>>

getDefaultDayOfWeekFactors ==
    [d \in 0..6 |-> CASE d = 0 -> 700 [] d = 1 -> 900 [] d = 2 -> 1000
                      [] d = 3 -> 1100 [] d = 4 -> 1200 [] d = 5 -> 1400
                      [] d = 6 -> 1100]

getSeasonalFactor(date) == OrElse(getDefaultSeasonalFactors[GetMonth(date)], Scale)

getDayOfWeekFactor(date) == OrElse(getDefaultDayOfWeekFactors[GetDay(date)], Scale)

\* Array.sort by calendarDate, newest first; the sort is stable: a record
\* follows the records dated later and the earlier records of its own date
SortNewestFirst(data) ==
    LET n == Len(data)
        Before(j, i) ==
            \/ data[j].calendarDate > data[i].calendarDate
            \/ data[j].calendarDate = data[i].calendarDate /\ j < i
    IN  [k \in 1..n |->
            data[CHOOSE i \in 1..n : Cardinality({j \in 1..n : Before(j, i)}) = k - 1]]

\* Array.sort by calendarDate, oldest first
SortOldestFirst(data) ==
    LET n == Len(data)
        Before(j, i) ==
            \/ data[j].calendarDate < data[i].calendarDate
            \/ data[j].calendarDate = data[i].calendarDate /\ j < i
    IN  [k \in 1..n |->
            data[CHOOSE i \in 1..n : Cardinality({j \in 1..n : Before(j, i)}) = k - 1]]

getSameDayOfWeekData(itemData, targetDate) ==
    LET sameDay == SelectSeq(itemData,
                       LAMBDA d : GetDay(d.calendarDate) = GetDay(targetDate))
        sorted == SortNewestFirst(sameDay)
    IN  SubSeq(sorted, 1, Min(8, Len(sorted)))

\* the cutoff is now - days at now's time of day: a record, dated at midnight,
\* is kept when its day is later than the cutoff's day
getRecentData(itemData, days, now) ==
    SortNewestFirst(SelectSeq(itemData, LAMBDA d : d.calendarDate > now - days))

getSamePeriodLastYear(itemData, targetDate) ==
    LET lastYear == GetFullYear(targetDate) - 1
        targetMonth == GetMonth(targetDate)
        targetWeek == GetDate(targetDate) \div 7
    IN  SelectSeq(itemData, LAMBDA d :
            /\ GetFullYear(d.calendarDate) = lastYear
            /\ GetMonth(d.calendarDate) = targetMonth
            /\ Abs((GetDate(d.calendarDate) \div 7) - targetWeek) <= 1)

\* weights 0.8^index: the quotient of sum(units * 4^i * 5^(n-1-i)) by
\* sum(4^i * 5^(n-1-i))
calculateWeightedAverage(data) ==
    IF data = <<>> THEN 0
    ELSE LET n == Len(data)
             weight == [i \in 1..n |-> Pow(4, i - 1) * Pow(5, n - i)]
             weightedSum == SumTo([i \in 1..n |-> data[i].currentYearUnits * weight[i]], n)
             totalWeight == SumTo(weight, n)
         IN  (weightedSum \div totalWeight) * Scale
                + ((weightedSum % totalWeight) * Scale) \div totalWeight

calculateBaseDemand(itemData, targetDate, now) ==
    IF itemData = <<>> THEN 0
    ELSE LET sameDayOfWeek == getSameDayOfWeekData(itemData, targetDate)
             recentData == getRecentData(itemData, 30, now)
             lastYearData == getSamePeriodLastYear(itemData, targetDate)
             totalUnits ==
                SumTo([i \in 1..Len(itemData) |-> itemData[i].currentYearUnits],
                      Len(itemData))
         IN  IF sameDayOfWeek # <<>> THEN calculateWeightedAverage(sameDayOfWeek)
             ELSE IF recentData # <<>> THEN calculateWeightedAverage(recentData)
             ELSE IF lastYearData # <<>> THEN calculateWeightedAverage(lastYearData)
             ELSE (totalUnits * Scale) \div Len(itemData)

\* 1 + slope / avgY, with slope = (n*sumXY - sumX*sumY) / (n*sumX2 - sumX^2)
calculateTrendFactor(itemData, targetDate, now) ==
    LET Trend(recentData) ==
            LET n == Len(recentData)
                y == [i \in 1..n |-> recentData[i].currentYearUnits]
                sumX == SumTo([i \in 1..n |-> i - 1], n)
                sumY == SumTo(y, n)
                sumXY == SumTo([i \in 1..n |-> (i - 1) * y[i]], n)
                sumX2 == SumTo([i \in 1..n |-> (i - 1) * (i - 1)], n)
                slopeNum == n * sumXY - sumX * sumY
                slopeDen == n * sumX2 - sumX * sumX
            IN  IF n < 4 THEN Scale
                ELSE IF sumY > 0
                     THEN Max(500, Min(2000,
                              Scale + (slopeNum * n * Scale) \div (slopeDen * sumY)))
                     ELSE Scale
    IN  IF Len(itemData) < 4 THEN Scale
        ELSE Bind(SortOldestFirst(getRecentData(itemData, 28, now)) \o <<>>, Trend)

calculateForecastFactors(engineHolidays, targetDate, itemData, now) ==
    [seasonal |-> getSeasonalFactor(targetDate),
     dayOfWeek |-> getDayOfWeekFactor(targetDate),
     holiday |-> getHolidayImpactFactor(engineHolidays, targetDate).factor,
     trend |-> calculateTrendFactor(itemData, targetDate, now),
     growth |-> 0]

calculateDateFactor(factors) ==
    Times(Times(Times(factors.seasonal, factors.dayOfWeek), factors.holiday),
          factors.trend)

\* the mean of the four deviations from 1.0
calculateFactorVariation(factors) ==
    LET sum == Plus(Plus(Plus(Deviation(factors.seasonal), Deviation(factors.dayOfWeek)),
                         Deviation(factors.holiday)), Deviation(factors.trend))
    IN  IF IsNaN(sum) THEN NaN ELSE sum \div 4

calculateConfidence(itemData, targetDate, factors, now) ==
    LET dataPoints == Len(itemData)
        volume == IF dataPoints >= 30 THEN 300
                  ELSE IF dataPoints >= 10 THEN 200
                  ELSE IF dataPoints >= 5 THEN 100 ELSE 0
        recent == IF Len(getRecentData(itemData, 14, now)) >= 5 THEN 100 ELSE 0
        sameDay == IF Len(getSameDayOfWeekData(itemData, targetDate)) >= 3
                   THEN 100 ELSE 0
        factorVariation == calculateFactorVariation(factors)
        stable == IF ~IsNaN(factorVariation) /\ factorVariation < 200 THEN 100 ELSE 0
    IN  Min(Scale, 500 + volume + recent + sameDay + stable)

NormalDemandExpected == "Normal demand expected"
NoHistoricalData == "No historical data available"

\* the phrases the explanation joins; none stands for 'Normal demand expected'
generateForecastExplanation(baseDemand, adjustedDemand, factors) ==
    LET Notable(x) == ~IsNaN(x) /\ Abs(x - Scale) > 50
        seasonal == IF Notable(factors.seasonal)
                    THEN <<IF factors.seasonal > Scale THEN "increased for season"
                           ELSE "decreased for season">>
                    ELSE <<>>
        dayOfWeek == IF Notable(factors.dayOfWeek)
                     THEN <<IF factors.dayOfWeek > Scale THEN "higher for day of week"
                            ELSE "lower for day of week">>
                     ELSE <<>>
        holiday == IF Notable(factors.holiday)
                   THEN <<IF factors.holiday > Scale
                          THEN "increased for holiday proximity"
                          ELSE "decreased for holiday proximity">>
                   ELSE <<>>
        trend == IF Notable(factors.trend)
                 THEN <<IF factors.trend > Scale THEN "upward trend"
                        ELSE "downward trend">>
                 ELSE <<>>
        explanations == seasonal \o dayOfWeek \o holiday \o trend
    IN  IF explanations = <<>> THEN <<NormalDemandExpected>> ELSE explanations

createEmptyForecast(targetDate) ==
    [forecast |-> 0,
     baseDemand |-> 0,
     adjustedDemand |-> 0,
     confidence |-> 0,
     factors |-> [seasonal |-> Scale, dayOfWeek |-> Scale, holiday |-> Scale,
                  trend |-> Scale, growth |-> 0],
     explanation |-> <<NoHistoricalData>>,
     dataPoints |-> 0,
     targetDate |-> targetDate]

forecastDemand(engineHolidays, historicalData, targetDate, growthRate, itemNumber, now) ==
    LET Forecast(itemData) ==
            LET Adjusted(baseDemand, factors) ==
                    Times(Times(Times(Times(Times(baseDemand, Scale + growthRate),
                        factors.seasonal), factors.dayOfWeek), factors.holiday),
                        factors.trend)
                Result(baseDemand, factors, adjustedDemand) ==
                    [forecast |-> AtLeastZero(adjustedDemand),
                     baseDemand |-> baseDemand,
                     adjustedDemand |-> adjustedDemand,
                     confidence |->
                        calculateConfidence(itemData, targetDate, factors, now),
                     factors |-> factors,
                     explanation |->
                        generateForecastExplanation(baseDemand, adjustedDemand, factors),
                     dataPoints |-> Len(itemData),
                     targetDate |-> targetDate]
            IN  IF itemData = <<>> THEN createEmptyForecast(targetDate)
                ELSE Bind(calculateBaseDemand(itemData, targetDate, now),
                        LAMBDA baseDemand :
                     Bind(calculateForecastFactors(engineHolidays, targetDate,
                                                   itemData, now),
                        LAMBDA factors :
                     Bind(Adjusted(baseDemand, factors),
                        LAMBDA adjustedDemand :
                     Result(baseDemand, factors, adjustedDemand))))
    IN  Bind(SelectSeq(historicalData, LAMBDA d : d.itemNumber = itemNumber), Forecast)

forecastMultiDay(engineHolidays, historicalData, startDate, days, growthRate, itemNumber, now) ==
    LET n == Max(0, days)
        Result(forecast) ==
            LET totalDemand ==
                    IF \E i \in 1..n : IsNaN(forecast[i].adjustedDemand) THEN NaN
                    ELSE SumTo([i \in 1..n |-> forecast[i].adjustedDemand], n)
                totalConfidence == SumTo([i \in 1..n |-> forecast[i].confidence], n)
            IN  [totalDemand |-> Round(totalDemand),
                 dailyForecasts |->
                    [i \in 1..n |->
                        [date |-> startDate + (i - 1),
                         baseDemand |-> forecast[i].baseDemand,
                         adjustedDemand |-> forecast[i].adjustedDemand,
                         dateFactor |-> calculateDateFactor(forecast[i].factors),
                         confidence |-> forecast[i].confidence,
                         factors |-> forecast[i].factors]] \o <<>>,
                 daysAhead |-> days,
                 confidenceScore |->
                    IF days = 0 THEN NaN ELSE totalConfidence \div days]
    IN  Bind([i \in 1..n |->
                forecastDemand(engineHolidays, historicalData, startDate + (i - 1),
                               growthRate, itemNumber, now)] \o <<>>,
             Result)

(***************************************************************************)
(* PlanGenerator                                                           *)
(*                                                                         *)
(* itemConfigs is a function from the item numbers that have a config to   *)
(* their ItemConfig.  generatePlanItem yields a sequence: the plan item,   *)
(* or none where the code returns null.  An internal failure inside        *)
(* generatePlanItem's try block is the parameter fails.                    *)
(***************************************************************************)
defaultGlobalSettings ==
    [fiscalYearStart |-> [month |-> 9, day |-> 2],
     defaultProductivity |-> 5,
     defaultShelfLife |-> 3,
     defaultMinBatchSize |-> 10,
     defaultMaxDaysAhead |-> 3,
     defaultGrowthRate |-> 100]

\* Math.max() of no arguments
NegativeInfinity == -2000000001

filterData(data, dateRange, selectedItems) ==
    SelectSeq(data, LAMBDA record :
        /\ \E i \in 1..Len(selectedItems) : selectedItems[i] = record.itemNumber
        /\ record.calendarDate >= dateRange.start
        /\ record.calendarDate <= dateRange.end)

\* the records handed over without grouping them by item
groupDataByItem_Ungrouped(data, itemNumber) == data

\* itemGroups.get(itemNumber) || []
groupDataByItem(data, itemNumber) ==
    SelectSeq(data, LAMBDA record : record.itemNumber = itemNumber)

\* field is "lastYearUnits" or "twoYearsAgoUnits"
getAverageUnits(itemData, field) ==
    LET values == SelectSeq([i \in 1..Len(itemData) |-> itemData[i][field]],
                            LAMBDA value : ~IsNaN(value))
    IN  IF itemData = <<>> \/ values = <<>> THEN 0
        ELSE (SumTo(values, Len(values)) * Scale) \div Len(values)

NoData == "No data"

createEmptyPlanItem(itemNumber, config, planDate) ==
    [itemNumber |-> itemNumber,
     itemDescription |-> config.itemDescription,
     oldStockStart |-> 0,
     oldStockEnd |-> 0,
     stockAge |-> 0,
     newStockEnd |-> 0,
     isExpired |-> FALSE,
     lastYearUnits |-> 0,
     twoYearsAgoUnits |-> 0,
     dateFactor |-> Scale,
     dateFactorReasons |-> <<NoHistoricalData>>,
     seasonalFactor |-> Scale,
     holidayFactor |-> Scale,
     dayOfWeekFactor |-> Scale,
     multiDayDemand |-> [totalDemand |-> 0, dailyForecasts |-> <<>>,
                         daysAhead |-> config.maxDaysAhead, confidenceScore |-> 0],
     todayNeed |-> 0,
     batchDecision |->
        [recommendedBatchSize |-> 0,
         produceToday |-> 0,
         hoursNeeded |-> 0,
         reasoning |-> NoHistoricalData,
         options |-> <<>>,
         selectedOption |-> [size |-> 0, efficiency |-> 0, wasteRisk |-> 0,
                             cost |-> 0, reasoning |-> NoData, score |-> 0],
         efficiencyScore |-> 0,
         wasteRiskScore |-> 0],
     productivity |-> config.productivity,
     shelfLife |-> config.shelfLife,
     growthRate |-> config.defaultGrowthRate,
     minBatchSize |-> config.minBatchSize,
     maxDaysAhead |-> config.maxDaysAhead]

generatePlanItem(engineHolidays, itemNumber, itemData, config, planDate, fails, now) ==
    LET currentStock == 0
        oldStockStart == 0
        stockAge == 0
        isExpired == stockAge > config.shelfLife
        PlanItem(multiDayDemand, todayForecast, batchDecision) ==
            [itemNumber |-> itemNumber,
             itemDescription |->
                IF itemData[1].itemDescription # ""
                THEN itemData[1].itemDescription ELSE config.itemDescription,
             oldStockStart |-> oldStockStart,
             oldStockEnd |->
                IF isExpired THEN 0
                ELSE Max(0, oldStockStart - Min(0, oldStockStart)),
             stockAge |-> stockAge,
             newStockEnd |->
                Max(0, batchDecision.produceToday - Max(0, 0 - oldStockStart)),
             isExpired |-> isExpired,
             lastYearUnits |-> getAverageUnits(itemData, "lastYearUnits"),
             twoYearsAgoUnits |-> getAverageUnits(itemData, "twoYearsAgoUnits"),
             dateFactor |->
                Times(Times(todayForecast.factors.holiday,
                            todayForecast.factors.seasonal),
                      todayForecast.factors.dayOfWeek),
             dateFactorReasons |->
                <<getHolidayImpactFactor(engineHolidays, planDate).explanation>>,
             seasonalFactor |-> todayForecast.factors.seasonal,
             holidayFactor |-> todayForecast.factors.holiday,
             dayOfWeekFactor |-> todayForecast.factors.dayOfWeek,
             multiDayDemand |-> multiDayDemand,
             todayNeed |-> todayForecast.forecast,
             batchDecision |-> batchDecision,
             productivity |-> config.productivity,
             shelfLife |-> config.shelfLife,
             growthRate |-> config.defaultGrowthRate,
             minBatchSize |-> config.minBatchSize,
             maxDaysAhead |-> config.maxDaysAhead]
    IN  IF itemData = <<>> THEN <<createEmptyPlanItem(itemNumber, config, planDate)>>
        ELSE IF fails THEN <<>>
        ELSE Bind(forecastMultiDay(engineHolidays, itemData, planDate,
                      config.maxDaysAhead, config.defaultGrowthRate, itemNumber, now),
                LAMBDA multiDayDemand :
             Bind(forecastDemand(engineHolidays, itemData, planDate,
                      config.defaultGrowthRate, itemNumber, now),
                LAMBDA todayForecast :
             Bind(optimizeBatchSize(multiDayDemand, currentStock, config),
                LAMBDA batchDecision :
             <<PlanItem(multiDayDemand, todayForecast, batchDecision)>>)))

\* the mean of no score is 0
MeanOf(scores) ==
    IF Len(scores) > 0 THEN SumTo(scores, Len(scores)) \div Len(scores) ELSE 0

\* a mean over every score, zero scores counted
CountedScores_All(scores) == scores

\* .filter(item => item.batchDecision.efficiencyScore > 0)
CountedScores(scores) == SelectSeq(scores, LAMBDA score : score > 0)

generateSummary(items) ==
    LET n == Len(items)
        Count(P(_)) == Cardinality({i \in 1..n : P(items[i])})
        totalUnits == SumTo([i \in 1..n |-> items[i].batchDecision.produceToday], n)
        totalHours == SumTo([i \in 1..n |-> items[i].batchDecision.hoursNeeded], n)
        efficiencyScores ==
            CountedScores([i \in 1..n |-> items[i].batchDecision.efficiencyScore])
        wasteRiskScores == [i \in 1..n |-> items[i].batchDecision.wasteRiskScore]
    IN  [totalItems |-> n,
         activeItems |-> Count(LAMBDA item : item.batchDecision.produceToday > 0),
         totalUnitsToProduce |-> totalUnits,
         totalHoursNeeded |-> totalHours,
         itemsWithCarryover |-> Count(LAMBDA item : item.oldStockStart > 0),
         expiredItems |-> Count(LAMBDA item : item.isExpired),
         batchEfficiencyScore |-> MeanOf(efficiencyScores),
         estimatedCost |-> totalUnits * 2500,
         wasteRiskScore |-> MeanOf(wasteRiskScores)]

generateMetadata(data, dateRange, selectedItems, planHolidays, globalSettings, now) ==
    [generatedAt |-> now,
     dataSource |-> {data[i].dataSource : i \in 1..Len(data)},
     holidaysConsidered |-> SelectSeq(planHolidays, LAMBDA h : h.isActive),
     planningHorizon |->
        IF selectedItems = <<>> THEN NegativeInfinity
        ELSE globalSettings.defaultMaxDaysAhead,
     fiscalYearStart |->
        FiscalStartInYear(globalSettings.fiscalYearStart, GetFullYear(now)),
     version |-> "1.0.0",
     settings |-> globalSettings]

\* f[1] \o ... \o f[n]
RECURSIVE Flatten(_, _)
Flatten(f, n) == IF n = 0 THEN <<>> ELSE Flatten(f, n - 1) \o f[n]

\* failing: the item numbers whose computation raises an internal failure
generatePlan(data, dateRange, selectedItems, itemConfigs, globalSettings, planHolidays, failing, now) ==
    LET PlanItemOf(engineHolidays, filteredData, itemNumber) ==
            IF itemNumber \in DOMAIN itemConfigs /\ itemConfigs[itemNumber].isActive
            THEN Bind(groupDataByItem(filteredData, itemNumber),
                    LAMBDA itemData :
                        generatePlanItem(engineHolidays, itemNumber, itemData,
                            itemConfigs[itemNumber], dateRange.start,
                            itemNumber \in failing, now))
            ELSE <<>>
        PlanItems(engineHolidays, filteredData) ==
            Flatten([k \in 1..Len(selectedItems) |->
                        PlanItemOf(engineHolidays, filteredData, selectedItems[k])],
                    Len(selectedItems))
        Plan(planItems) ==
            [date |-> dateRange.start,
             items |-> planItems,
             summary |-> generateSummary(planItems),
             metadata |-> generateMetadata(data, dateRange, selectedItems,
                                           planHolidays, globalSettings, now)]
    IN  Bind(NewHolidayEngine(planHolidays),
            LAMBDA engineHolidays :
        Bind(filterData(data, dateRange, selectedItems),
            LAMBDA filteredData :
        Bind(PlanItems(engineHolidays, filteredData), Plan)))

\* the inputs the generator is driven with
Items == {"A", "B", "C"}

\* a Monday
PlanStart == MakeDate(2024, 6, 3)

SalesRecord(itemNumber, date, units) ==
    [itemNumber |-> itemNumber,
     itemDescription |-> "Deli item " \o itemNumber,
     calendarDate |-> date,
     currentYearUnits |-> units,
     lastYearUnits |-> units + 1,
     twoYearsAgoUnits |-> NaN,
     dataSource |-> "sales.csv"]

SalesHistories ==
    { <<>>,
      <<SalesRecord("A", PlanStart, 10), SalesRecord("A", PlanStart + 1, 20)>>,
      <<SalesRecord("A", PlanStart + 1, 20), SalesRecord("B", PlanStart + 1, 6),
        SalesRecord("A", PlanStart, 10)>>,
      <<SalesRecord("A", PlanStart, 4), SalesRecord("A", PlanStart + 1, 6),
        SalesRecord("A", PlanStart + 2, 8), SalesRecord("A", PlanStart + 3, 10),
        SalesRecord("A", PlanStart + 4, 12), SalesRecord("B", PlanStart + 2, 5)>>,
      <<SalesRecord("B", PlanStart - 7, 9), SalesRecord("A", PlanStart, 10)>> }

DateRanges ==
    { [start |-> PlanStart, end |-> PlanStart + 6],
      [start |-> PlanStart, end |-> PlanStart + 1] }

\* selectedItems is any array of item numbers
Selections ==
    { <<>>, <<"A">>, <<"A", "B">>, <<"B", "A">>, <<"A", "B", "C">>, <<"B", "B">> }

ItemConfigOf(itemNumber, minBatchSize, maxDaysAhead, isActive) ==
    [itemNumber |-> itemNumber,
     itemDescription |-> "Configured " \o itemNumber,
     productivity |-> defaultGlobalSettings.defaultProductivity,
     shelfLife |-> defaultGlobalSettings.defaultShelfLife,
     minBatchSize |-> minBatchSize,
     maxDaysAhead |-> maxDaysAhead,
     defaultGrowthRate |-> defaultGlobalSettings.defaultGrowthRate,
     isActive |-> isActive]

ItemConfigSets ==
    { [i \in Items |-> ItemConfigOf(i, 10, 3, TRUE)],
      [i \in Items |-> ItemConfigOf(i, 15, 3, i # "B")],
      [i \in {"A", "B"} |-> ItemConfigOf(i, 10, 1, TRUE)],
      [i \in Items |-> [ItemConfigOf(i, 10, 3, TRUE) EXCEPT
                            !.productivity = IF i = "A" THEN 0 ELSE @]] }

PlanHolidays == { <<>>, <<Thanksgiving, BlackFriday>> }

\* the days on which a plan is generated
Clocks == {PlanStart + 7, PlanStart + 30, PlanStart + 45}

ForecastTargets == {PlanStart + 2, MakeDate(2025, 6, 4)}

GrowthRates == {0, 100}

NoPlanCall ==
    [data |-> <<>>, dateRange |-> [start |-> 0, end |-> 0], selectedItems |-> <<>>,
     itemConfigs |-> <<>>, holidays |-> <<>>, failing |-> {}, now |-> 0]

NoPlan ==
    [date |-> 0, items |-> <<>>, summary |-> generateSummary(<<>>),
     metadata |-> generateMetadata(<<>>, [start |-> 0, end |-> 0], <<>>, <<>>,
                                   defaultGlobalSettings, 0)]

NoForecastCall ==
    [historicalData |-> <<>>, targetDate |-> 0, growthRate |-> 0, itemNumber |-> "",
     holidays |-> <<>>, now |-> 0]

\* a return of item A (a negative unit count) among its sales
ReturnsHistory ==
    <<SalesRecord("A", PlanStart, 0 - 6), SalesRecord("A", PlanStart + 1, 4),
      SalesRecord("A", PlanStart + 2, 0)>>

MultiDayHistories == SalesHistories \cup {ReturnsHistory}

\* growth rates of -150 %, -100 %, -20 %, 0 and +10 %
MultiDayGrowthRates == {0 - 1500, 0 - 1000, 0 - 200, 0, 100}

NoMultiDayCall ==
    [historicalData |-> <<>>, startDate |-> 0, days |-> 0, growthRate |-> 0,
     itemNumber |-> "", now |-> 0]

NoMultiDayForecast ==
    [totalDemand |-> 0, dailyForecasts |-> <<>>, daysAhead |-> 0, confidenceScore |-> 0]

InitPlanGenerator ==
    /\ pgPc = "idle"
    /\ planCall = NoPlanCall
    /\ plan = NoPlan
    /\ laterNow = 0
    /\ laterPlan = NoPlan
    /\ forecastCall = NoForecastCall
    /\ forecastOut = createEmptyForecast(0)
    /\ multiDayCall = NoMultiDayCall
    /\ multiDayOut = NoMultiDayForecast

GeneratePlan ==
    /\ unit = "plan"
    /\ pgPc = "idle"
    /\ \E data \in SalesHistories, dateRange \in DateRanges, selectedItems \in Selections,
          itemConfigs \in ItemConfigSets, planHolidays \in PlanHolidays,
          failing \in SUBSET {"A", "B"}, now \in Clocks :
        /\ planCall' = [data |-> data, dateRange |-> dateRange,
                        selectedItems |-> selectedItems, itemConfigs |-> itemConfigs,
                        holidays |-> planHolidays, failing |-> failing, now |-> now]
        /\ plan' = generatePlan(data, dateRange, selectedItems, itemConfigs,
                                defaultGlobalSettings, planHolidays, failing, now)
    /\ pgPc' = "planned"
    /\ UNCHANGED <<unit, uploadVars, fiscalVars, holidayVars, batchVars, laterNow, laterPlan,
                   forecastCall, forecastOut, multiDayCall, multiDayOut>>

\* the same call made again, the wall clock having moved on
GeneratePlanAgain ==
    /\ unit = "plan"
    /\ pgPc = "planned"
    /\ \E now \in Clocks :
        /\ now >= planCall.now
        /\ laterNow' = now
        /\ laterPlan' = generatePlan(planCall.data, planCall.dateRange,
                            planCall.selectedItems, planCall.itemConfigs,
                            defaultGlobalSettings, planCall.holidays,
                            planCall.failing, now)
    /\ pgPc' = "replanned"
    /\ UNCHANGED <<unit, uploadVars, fiscalVars, holidayVars, batchVars, planCall, plan,
                   forecastCall, forecastOut, multiDayCall, multiDayOut>>

ForecastDemand ==
    /\ unit = "plan"
    /\ pgPc = "idle"
    /\ \E historicalData \in SalesHistories, targetDate \in ForecastTargets,
          growthRate \in GrowthRates, itemNumber \in Items,
          planHolidays \in PlanHolidays, now \in Clocks :
        /\ forecastCall' = [historicalData |-> historicalData, targetDate |-> targetDate,
                            growthRate |-> growthRate, itemNumber |-> itemNumber,
                            holidays |-> planHolidays, now |-> now]
        /\ \E engineHolidays \in {NewHolidayEngine(planHolidays)} :
            forecastOut' = forecastDemand(engineHolidays, historicalData, targetDate,
                                          growthRate, itemNumber, now)
    /\ pgPc' = "forecast"
    /\ UNCHANGED <<unit, uploadVars, fiscalVars, holidayVars, batchVars, planCall, plan, laterNow,
                   laterPlan, multiDayCall, multiDayOut>>

ForecastMultiDay ==
    /\ unit = "plan"
    /\ pgPc = "idle"
    /\ \E historicalData \in MultiDayHistories, days \in 0..MaxForecastDays,
          growthRate \in MultiDayGrowthRates, itemNumber \in {"A", "B"},
          now \in Clocks :
        /\ multiDayCall' = [historicalData |-> historicalData, startDate |-> PlanStart,
                            days |-> days, growthRate |-> growthRate,
                            itemNumber |-> itemNumber, now |-> now]
        /\ \E engineHolidays \in {NewHolidayEngine(<<>>)} :
            multiDayOut' = forecastMultiDay(engineHolidays, historicalData, PlanStart,
                                            days, growthRate, itemNumber, now)
    /\ pgPc' = "multiday"
    /\ UNCHANGED <<unit, uploadVars, fiscalVars, holidayVars, batchVars, planCall, plan, laterNow,
                   laterPlan, forecastCall, forecastOut>>

NextPlan == GeneratePlan \/ GeneratePlanAgain \/ ForecastDemand \/ ForecastMultiDay

(***************************************************************************)
(* DataUploadPage and the store's upload state                             *)
(*                                                                         *)
(* An uploaded file is [id, name, status, recordCount]; ids are the        *)
(* numbers 1, 2, ... in the order of upload (the code draws a fresh id     *)
(* from the clock and a random string).  A processed record keeps the name *)
(* of its file in dataSource; upload is the id of the file it was read     *)
(* from, which the code does not store.  While onDrop runs, isProcessing   *)
(* disables the drop zone and the remove buttons, so a drop is one step.   *)
(***************************************************************************)
FileNames == {"may.csv", "june.csv"}

\* what csvProcessor.processFile makes of a file: records, a result with
\* errors, or an exception
Outcomes == {"records", "errors", "exception"}

DroppedFiles == [name : FileNames, outcome : Outcomes, records : 1..2]

Drops == UNION {[1..n -> DroppedFiles] : n \in 0..MaxDrop}

\* addUploadedFile
addUploadedFile(files, file) == Append(files, file)

\* updateUploadedFile
updateUploadedFile(files, id, updates) ==
    [i \in 1..Len(files) |->
        IF files[i].id = id
        THEN [f \in DOMAIN files[i] |->
                IF f \in DOMAIN updates THEN updates[f] ELSE files[i][f]]
        ELSE files[i]]

\* removeUploadedFile
removeUploadedFile(files, id) == SelectSeq(files, LAMBDA file : file.id # id)

\* addProcessedData
addProcessedData(data, records) == data \o records

\* result.data of a file that was read
ResultData(file, id) ==
    [k \in 1..file.records |-> [dataSource |-> file.name, upload |-> id, row |-> k]]

\* the loop of onDrop over acceptedFiles, file by file; id is the id of the
\* next file
RECURSIVE ProcessFiles(_, _, _, _)
ProcessFiles(acceptedFiles, files, data, id) ==
    IF acceptedFiles = <<>> THEN [uploadedFiles |-> files, processedData |-> data]
    ELSE LET file == Head(acceptedFiles)
             listed == addUploadedFile(files,
                           [id |-> id, name |-> file.name, status |-> "processing",
                            recordCount |-> 0])
         IN  IF file.outcome = "records"
             THEN ProcessFiles(Tail(acceptedFiles),
                      updateUploadedFile(listed, id,
                          [status |-> "processed", recordCount |-> file.records]),
                      addProcessedData(data, ResultData(file, id)), id + 1)
             ELSE ProcessFiles(Tail(acceptedFiles),
                      updateUploadedFile(listed, id, [status |-> "error"]),
                      data, id + 1)

InitUploadPage ==
    /\ uploadedFiles = <<>>
    /\ processedData = <<>>
    /\ dataStatus = "idle"
    /\ upPc = "idle"
    /\ uploads = 0

OnDrop ==
    /\ unit = "upload"
    /\ \E acceptedFiles \in Drops :
        /\ uploads + Len(acceptedFiles) <= MaxUploads
        /\ \E after \in {ProcessFiles(acceptedFiles, uploadedFiles, processedData,
                                       uploads + 1)} :
            /\ uploadedFiles' = after.uploadedFiles
            /\ processedData' = after.processedData
        /\ uploads' = uploads + Len(acceptedFiles)
    /\ dataStatus' = "ready"
    /\ upPc' = "dropped"
    /\ UNCHANGED <<unit, fiscalVars, holidayVars, batchVars, planVars>>

HandleRemoveFile ==
    /\ unit = "upload"
    /\ \E i \in 1..Len(uploadedFiles) :
        uploadedFiles' = removeUploadedFile(uploadedFiles, uploadedFiles[i].id)
    /\ dataStatus' = IF Len(uploadedFiles) <= 1 THEN "idle" ELSE dataStatus
    /\ upPc' = "removed"
    /\ UNCHANGED <<unit, fiscalVars, holidayVars, batchVars, planVars, processedData,
                   uploads>>

NextUpload == OnDrop \/ HandleRemoveFile

(***************************************************************************)
(* Specifications                                                          *)
(***************************************************************************)
Units == {"fiscal", "holiday", "batch", "plan", "upload"}

Init ==
    /\ unit \in Units
    /\ InitFiscalCalendar
    /\ InitHolidayEngine
    /\ InitBatchOptimizer
    /\ InitPlanGenerator
    /\ InitUploadPage

Next == NextFiscal \/ NextHoliday \/ NextBatch \/ NextPlan \/ NextUpload

Spec == Init /\ [][Next]_vars

\* one class at a time, the others left as constructed from the defaults
DefaultFiscalCalendar ==
    /\ fiscalYearStart = [month |-> 9, day |-> 2] /\ fcPc = "idle"
    /\ fiscalIn = NoFiscalDate /\ calendarDate = 0 /\ fiscalOut = NoFiscalDate
    /\ lastYearDate = 0

DefaultHolidayEngine ==
    /\ ctorHolidays = <<>> /\ callerHolidays = <<>> /\ shared = FALSE
    /\ holidays = getDefaultHolidays /\ mutations = 0
    /\ hePc = "idle" /\ impactDate = 0 /\ impact = NoImpact
    /\ floatCall = NoFloatCall /\ floatDate = NoDate
    /\ yearCall = 0 /\ yearOut = <<>>

InitFiscal ==
    /\ unit = "fiscal"
    /\ InitFiscalCalendar
    /\ DefaultHolidayEngine
    /\ InitBatchOptimizer
    /\ InitPlanGenerator
    /\ InitUploadPage

InitHoliday ==
    /\ unit = "holiday"
    /\ DefaultFiscalCalendar
    /\ InitHolidayEngine
    /\ InitBatchOptimizer
    /\ InitPlanGenerator
    /\ InitUploadPage

InitBatch ==
    /\ unit = "batch"
    /\ DefaultFiscalCalendar
    /\ DefaultHolidayEngine
    /\ InitBatchOptimizer
    /\ InitPlanGenerator
    /\ InitUploadPage

InitPlan ==
    /\ unit = "plan"
    /\ DefaultFiscalCalendar
    /\ DefaultHolidayEngine
    /\ InitBatchOptimizer
    /\ InitPlanGenerator
    /\ InitUploadPage

InitUpload ==
    /\ unit = "upload"
    /\ DefaultFiscalCalendar
    /\ DefaultHolidayEngine
    /\ InitBatchOptimizer
    /\ InitPlanGenerator
    /\ InitUploadPage

SpecUpload == InitUpload /\ [][NextUpload]_vars

SpecPlan == InitPlan /\ [][NextPlan]_vars

SpecBatch == InitBatch /\ [][NextBatch]_vars

SpecHoliday == InitHoliday /\ [][NextHoliday]_vars

SpecFiscal == InitFiscal /\ [][NextFiscal]_vars

(***************************************************************************)
(* C1  Fiscal round trip: converting fiscal coordinates to a calendar date *)
(* and that date back returns the coordinates it started from, the fiscal  *)
(* year included.                                                          *)
(***************************************************************************)
C1_RoundTripExact == fcPc = "fiscal" => fiscalOut = fiscalIn

(***************************************************************************)
(* C2  Holiday factor bounds: when every rule of the engine has daysBefore *)
(* and daysAfter in 0..14 and salesMultiplier in 0.1..5.0, the factor      *)
(* getHolidayImpactFactor returns is a number in [0.1, 5.0].               *)
(***************************************************************************)
WithinValidatedRanges(h) ==
    /\ h.daysBefore \in 0..14
    /\ h.daysAfter \in 0..14
    /\ h.salesMultiplier >= 100 /\ h.salesMultiplier <= 5000

C2_FactorWithinBounds ==
    (hePc = "impact" /\ \A i \in 1..Len(holidays) : WithinValidatedRanges(holidays[i]))
        => (~IsNaN(impact.factor) /\ impact.factor >= 100 /\ impact.factor <= 5000)

(***************************************************************************)
(* C3  No-holiday neutrality.  As claimed: an engine built with an empty   *)
(* rule set answers factor 1.0, no affected holidays and 'No holiday       *)
(* impact' for every date.                                                 *)
(***************************************************************************)
Neutral(result) ==
    /\ result.factor = Scale
    /\ result.affectedHolidays = <<>>
    /\ result.explanation.text = NoHolidayImpactText

C6_OwnDateFactorIsMultiplier ==
    (/\ hePc = "impact"
     /\ Len(impact.affectedHolidays) = 1
     /\ impact.affectedHolidays[1].distance = 0
     /\ impact.affectedHolidays[1].impact
            = impact.affectedHolidays[1].holiday.salesMultiplier)
        => impact.factor = impact.affectedHolidays[1].holiday.salesMultiplier

(***************************************************************************)
(* C4  Minimum-batch rule: with no stock on hand and a total demand above  *)
(* 0 and below minBatchSize, optimizeBatchSize produces exactly            *)
(* minBatchSize and its reasoning is one of the minimum-batch wordings.    *)
(***************************************************************************)
C4_MinimumBatchChosen ==
    (/\ boPc = "decided"
     /\ batchCall.currentStock = 0
     /\ batchCall.multiDayDemand.totalDemand > 0
     /\ batchCall.multiDayDemand.totalDemand < batchCall.config.minBatchSize)
        => /\ decision.produceToday = batchCall.config.minBatchSize
           /\ decision.reasoning \in {MinBatchCovers, MinBatchShort}

(***************************************************************************)
(* C5  Sufficiency short-circuit: whenever the stock on hand is at least   *)
(* the total demand, optimizeBatchSize produces nothing, needs no hours,   *)
(* reports waste risk 0 and the 'Sufficient stock' reasoning.              *)
(***************************************************************************)
C5_SufficientStockProducesNothing ==
    (boPc = "decided" /\ batchCall.currentStock >= batchCall.multiDayDemand.totalDemand)
        => /\ decision.produceToday = 0
           /\ decision.hoursNeeded = 0
           /\ decision.wasteRiskScore = 0
           /\ decision.reasoning = SufficientStock

\* 25 units on hand against a 3-day demand of 20
C5_Witness ==
    /\ boPc = "decided"
    /\ batchCall.multiDayDemand.totalDemand = 20
    /\ batchCall.multiDayDemand.daysAhead = 3
    /\ batchCall.currentStock > 20
    /\ decision.produceToday = 0
    /\ decision.reasoning = SufficientStock

(***************************************************************************)
(* C10  Monotonic waste risk: for a total demand >= 0, a shelf life > 0    *)
(* and a horizon > 0, calculateWasteRisk is 0 for a batch size up to the   *)
(* total demand, lies in [0, 1], and does not decrease when the batch size *)
(* grows by one, also across the switch from the within-shelf-life branch  *)
(* to the expiration branch.                                               *)
(***************************************************************************)
C10_WasteRiskMonotonic ==
    boPc = "risk"
        => /\ wasteCall.batchSize <= wasteCall.totalDemand => wasteOut = 0
           /\ wasteOut >= 0 /\ wasteOut <= Scale
           /\ wasteOut <= calculateWasteRisk(wasteCall.batchSize + 1,
                              wasteCall.totalDemand, wasteCall.shelfLife,
                              wasteCall.daysAhead)

\* demand 10 over 2 days, shelf life 3: 15 units are consumed within the shelf
\* life, 16 are not
C10_Witness ==
    /\ boPc = "risk"
    /\ wasteCall = [batchSize |-> 15, totalDemand |-> 10, shelfLife |-> 3,
                    daysAhead |-> 2]
    /\ wasteOut > 0
    /\ calculateWasteRisk(16, 10, 3, 2) > wasteOut
    /\ 16 * 2 > 3 * 10 /\ ~(15 * 2 > 3 * 10)


(***************************************************************************)
(* C7  Determinism: generatePlan run again on the same records, date       *)
(* range, selected items, item configs, settings and holidays at a later   *)
(* wall-clock time returns the same plan items and the same summary.       *)
(***************************************************************************)
C7_SameInputsSamePlan ==
    pgPc = "replanned"
        => /\ laterPlan.items = plan.items
           /\ laterPlan.summary = plan.summary

(***************************************************************************)
(* C8  Per-item fault isolation: when computing a selected active item     *)
(* raises an internal failure, the plan holds every other item as it       *)
(* would be without the failure, and holds an item for the failing one.    *)
(***************************************************************************)
RecordsInRange(itemNumber) ==
    {i \in 1..Len(planCall.data) :
        /\ planCall.data[i].itemNumber = itemNumber
        /\ planCall.data[i].calendarDate >= planCall.dateRange.start
        /\ planCall.data[i].calendarDate <= planCall.dateRange.end}

RaisedItems ==
    {itemNumber \in planCall.failing :
        /\ \E k \in 1..Len(planCall.selectedItems) :
                planCall.selectedItems[k] = itemNumber
        /\ itemNumber \in DOMAIN planCall.itemConfigs
        /\ planCall.itemConfigs[itemNumber].isActive
        /\ RecordsInRange(itemNumber) # {}}

OtherItems(items) ==
    SelectSeq(items, LAMBDA item : item.itemNumber \notin RaisedItems)

C8_FailingItemKeptDegraded ==
    (pgPc = "planned" /\ RaisedItems # {})
        => /\ OtherItems(plan.items)
                = OtherItems(generatePlan(planCall.data, planCall.dateRange,
                                 planCall.selectedItems, planCall.itemConfigs,
                                 defaultGlobalSettings, planCall.holidays, {},
                                 planCall.now).items)
           /\ \A itemNumber \in RaisedItems :
                \E i \in 1..Len(plan.items) : plan.items[i].itemNumber = itemNumber

(***************************************************************************)
(* C9  No-data roster.  As claimed: for every selected item with an active *)
(* config and no historical records in the date range, plan.items holds    *)
(* exactly one item for it, with total demand 0, confidence 0, todayNeed   *)
(* 0, produceToday 0 and the reasoning 'No historical data available';     *)
(* forecastDemand for an item without records returns forecast 0 and       *)
(* confidence 0.                                                           *)
(***************************************************************************)
TimesSelected(selectedItems, itemNumber) ==
    Cardinality({k \in 1..Len(selectedItems) : selectedItems[k] = itemNumber})

HasNoData(itemNumber) ==
    /\ TimesSelected(planCall.selectedItems, itemNumber) > 0
    /\ itemNumber \in DOMAIN planCall.itemConfigs
    /\ planCall.itemConfigs[itemNumber].isActive
    /\ RecordsInRange(itemNumber) = {}

ItemsOf(itemNumber) ==
    SelectSeq(plan.items, LAMBDA item : item.itemNumber = itemNumber)

IsNoDataItem(item) ==
    /\ item.multiDayDemand.totalDemand = 0
    /\ item.multiDayDemand.confidenceScore = 0
    /\ item.todayNeed = 0
    /\ item.batchDecision.produceToday = 0
    /\ item.batchDecision.reasoning = NoHistoricalData

EmptyForecastReturned ==
    (/\ pgPc = "forecast"
     /\ \A i \in 1..Len(forecastCall.historicalData) :
            forecastCall.historicalData[i].itemNumber # forecastCall.itemNumber)
        => forecastOut.forecast = 0 /\ forecastOut.confidence = 0

C9_ExactlyOneNoDataItem ==
    /\ pgPc = "planned"
        => \A itemNumber \in Items :
            HasNoData(itemNumber)
                => /\ Len(ItemsOf(itemNumber)) = 1
                   /\ IsNoDataItem(ItemsOf(itemNumber)[1])
    /\ EmptyForecastReturned

(***************************************************************************)
(* C9 as amended: for every selected item with an active config and no     *)
(* historical records in the date range, plan.items holds one item for     *)
(* each occurrence of the item in selectedItems (exactly one when it is    *)
(* listed once), each with total demand 0, confidence 0, todayNeed 0,      *)
(* produceToday 0 and the reasoning 'No historical data available';        *)
(* forecastDemand for an item without records returns forecast 0 and       *)
(* confidence 0.                                                           *)
(***************************************************************************)
C9_OneNoDataItemPerOccurrence ==
    /\ pgPc = "planned"
        => \A itemNumber \in Items :
            HasNoData(itemNumber)
                => /\ Len(ItemsOf(itemNumber))
                        = TimesSelected(planCall.selectedItems, itemNumber)
                   /\ \A i \in 1..Len(ItemsOf(itemNumber)) :
                        IsNoDataItem(ItemsOf(itemNumber)[i])
    /\ EmptyForecastReturned

\* item B selected twice, active, with no record of its own in the range
C9_Witness ==
    /\ pgPc = "planned"
    /\ planCall.selectedItems = <<"B", "B">>
    /\ HasNoData("B")
    /\ Len(plan.items) = 2
    /\ IsNoDataItem(plan.items[1]) /\ IsNoDataItem(plan.items[2])

(***************************************************************************)
(* C11  Non-negative demand: for every input, growth rates below -1 and    *)
(* records with negative unit counts included, the adjustedDemand of every *)
(* DailyForecast that forecastMultiDay returns is >= 0, and so is          *)
(* MultiDayDemand.totalDemand.                                             *)
(***************************************************************************)
C11_DemandNeverNegative ==
    pgPc = "multiday"
        => /\ \A i \in 1..Len(multiDayOut.dailyForecasts) :
                /\ ~IsNaN(multiDayOut.dailyForecasts[i].adjustedDemand)
                /\ multiDayOut.dailyForecasts[i].adjustedDemand >= 0
           /\ ~IsNaN(multiDayOut.totalDemand)
           /\ multiDayOut.totalDemand >= 0

(***************************************************************************)
(* C12  Rejected holiday configs are never applied: starting from a valid  *)
(* holiday set, after any sequence of addHoliday, updateHoliday and        *)
(* removeHoliday calls every holiday the engine holds has no               *)
(* validateHoliday errors (a holiday or update that violates a constraint  *)
(* leaves the set as it was).                                              *)
(***************************************************************************)
AllValid(hs) == \A i \in 1..Len(hs) : validateHoliday(hs[i]) = <<>>

C12_HeldHolidaysAreValid ==
    AllValid(NewHolidayEngine(ctorHolidays)) => AllValid(getAllHolidays(holidays))

(***************************************************************************)
(* C13  Validation requires a parsable floating rule: every active         *)
(* floating holiday the engine holds that passes validateHoliday resolves  *)
(* to a date in getHolidaysForYear, for every year (validateHoliday        *)
(* reports a rule that is not '{first|second|third|fourth|last}            *)
(* {weekday}').                                                            *)
(***************************************************************************)
ResolvesIn(holiday, year) ==
    \E i \in 1..Len(getHolidaysForYear(<<holiday>>, year)) :
        getHolidaysForYear(<<holiday>>, year)[i].holiday = holiday

C13_ValidFloatingRuleResolves ==
    \A i \in 1..Len(holidays) :
        (/\ holidays[i].type = "floating"
         /\ holidays[i].isActive
         /\ validateHoliday(holidays[i]) = <<>>)
            => /\ RuleMatches([k \in 1..Len(holidays[i].rule) |->
                                ToLowerCase(holidays[i].rule[k])])
               /\ \A year \in FirstYear..LastYear : ResolvesIn(holidays[i], year)

(***************************************************************************)
(* C14  Configuration errors block plan generation: when a selected active *)
(* item's config has productivity <= 0, the plan generatePlan returns      *)
(* holds no production decision for that item.                             *)
(***************************************************************************)
C14_NoDecisionOnInvalidConfig ==
    pgPc = "planned"
        => \A i \in 1..Len(plan.items) :
            planCall.itemConfigs[plan.items[i].itemNumber].productivity <= 0
                => plan.items[i].batchDecision.produceToday = 0

(***************************************************************************)
(* C15  Optimizer fallback: optimizeBatchSize never propagates an          *)
(* exception; on an internal failure (a null item config, a null           *)
(* multiDayDemand) it returns a decision with produceToday = minBatchSize  *)
(* (10 by default) and the reasoning of an error result.                   *)
(***************************************************************************)
InternalFailure ==
    \/ IsNull(batchCall.multiDayDemand)
    \/ /\ IsNull(batchCall.config)
       /\ batchCall.multiDayDemand.totalDemand > batchCall.currentStock

C15_FallbackOnEveryFailure ==
    boPc = "recovered"
        => /\ ~IsThrown(decision)
           /\ InternalFailure
                => /\ decision.produceToday
                        = IF IsNull(batchCall.config) THEN 10
                          ELSE OrElse(batchCall.config.minBatchSize, 10)
                   /\ decision.reasoning = ErrorInBatchCalculation

(***************************************************************************)
(* C16  getCorrespondingDateLastYear(d) is the calendar date with the      *)
(* fiscal period, week and day of d in the fiscal year before d's; for a   *)
(* date d away from the fiscal-year edges it is 364 to 366 days earlier    *)
(* than d.                                                                 *)
(***************************************************************************)
\* days since the start of the fiscal year the date lies in
DayOfFiscalYear(date) == date - FiscalYearOf(fiscalYearStart, date).fiscalYearStart

C16_SameFiscalDayLastYear ==
    (fcPc = "lastyear" /\ DayOfFiscalYear(calendarDate) < 364)
        => /\ convertToFiscalDate(fiscalYearStart, lastYearDate)
                = [convertToFiscalDate(fiscalYearStart, calendarDate)
                        EXCEPT !.fiscalYear = @ - 1]
           /\ calendarDate - lastYearDate \in 364..366

(***************************************************************************)
(* C17  Boundary drift is never silent: the FiscalDate returned for a      *)
(* calendar date whose offset from its fiscal-year start is 364 or more is *)
(* distinguishable from the result for an in-range date; no two distinct   *)
(* calendar dates of one fiscal year get the same fiscal coordinates.      *)
(***************************************************************************)
SameFiscalYear(a, b) ==
    FiscalYearOf(fiscalYearStart, a).fiscalYearStart
        = FiscalYearOf(fiscalYearStart, b).fiscalYearStart

C17_ClampedDateDistinguishable ==
    fcPc = "converted"
        => \A other \in FiscalQueryDates :
            (other # calendarDate /\ SameFiscalYear(other, calendarDate))
                => convertToFiscalDate(fiscalYearStart, other) # fiscalOut

(***************************************************************************)
(* C18  Holiday rules are read-only to the engine: no HolidayEngine        *)
(* operation changes the contents of the holiday array that was passed to  *)
(* the constructor.                                                        *)
(***************************************************************************)
C18_CallerArrayUntouched == callerHolidays = ctorHolidays

(***************************************************************************)
(* C19  Plan order: plan.items lists the selected items that have an       *)
(* active config in exactly the order of the selectedItems input, one plan *)
(* item per occurrence, whatever the order of the sales records.           *)
(***************************************************************************)
ActiveSelected ==
    SelectSeq(planCall.selectedItems,
              LAMBDA itemNumber :
                /\ itemNumber \in DOMAIN planCall.itemConfigs
                /\ planCall.itemConfigs[itemNumber].isActive)

ItemNumbersOf(items) == [i \in 1..Len(items) |-> items[i].itemNumber]

C19_ItemsInSelectionOrder ==
    pgPc = "planned" => ItemNumbersOf(plan.items) = ActiveSelected

(***************************************************************************)
(* C20  Summary means.  As claimed: in every generated plan                *)
(* summary.batchEfficiencyScore is the arithmetic mean of                  *)
(* batchDecision.efficiencyScore over all items of the plan, no-data items *)
(* with score 0 included, and summary.wasteRiskScore is the arithmetic     *)
(* mean of batchDecision.wasteRiskScore over all items; both are 0 for an  *)
(* empty plan.                                                             *)
(***************************************************************************)
EfficiencyScores == [i \in 1..Len(plan.items) |-> plan.items[i].batchDecision.efficiencyScore]

WasteRiskScores == [i \in 1..Len(plan.items) |-> plan.items[i].batchDecision.wasteRiskScore]

\* mean is the arithmetic mean of scores, to the thousandth below it
IsMeanOf(mean, scores) ==
    IF scores = <<>> THEN mean = 0
    ELSE /\ mean * Len(scores) <= SumTo(scores, Len(scores))
         /\ SumTo(scores, Len(scores)) < (mean + 1) * Len(scores)

C20_SummaryMeansOverAllItems ==
    pgPc = "planned"
        => /\ IsMeanOf(plan.summary.batchEfficiencyScore, EfficiencyScores)
           /\ IsMeanOf(plan.summary.wasteRiskScore, WasteRiskScores)

(***************************************************************************)
(* C20 as amended: in every generated plan summary.batchEfficiencyScore is *)
(* the arithmetic mean of batchDecision.efficiencyScore over the items     *)
(* whose efficiencyScore is above 0 (0 when there is none), and            *)
(* summary.wasteRiskScore is the arithmetic mean of                        *)
(* batchDecision.wasteRiskScore over all items; both are 0 for an empty    *)
(* plan.                                                                   *)
(***************************************************************************)
C20_EfficiencyMeanOverScoredItems ==
    pgPc = "planned"
        => /\ IsMeanOf(plan.summary.batchEfficiencyScore,
                       SelectSeq(EfficiencyScores, LAMBDA score : score > 0))
           /\ IsMeanOf(plan.summary.wasteRiskScore, WasteRiskScores)

\* a plan of a scored item and a no-data item: the zero score is not counted
C20_Witness ==
    /\ pgPc = "planned"
    /\ Len(plan.items) = 2
    /\ plan.items[1].batchDecision.efficiencyScore > 0
    /\ plan.items[2].batchDecision.efficiencyScore = 0
    /\ plan.summary.batchEfficiencyScore = plan.items[1].batchDecision.efficiencyScore
    /\ plan.items[1].batchDecision.wasteRiskScore > 0
    /\ plan.summary.wasteRiskScore = plan.items[1].batchDecision.wasteRiskScore \div 2

(***************************************************************************)
(* C21  Candidate deduplication: in every BatchDecision produced on the    *)
(* normal path no two entries of options have sizes within 2 units of each *)
(* other, and there are at most five options.                              *)
(***************************************************************************)
OnNormalPath ==
    /\ boPc = "decided"
    /\ NetDemand(OrElse(batchCall.multiDayDemand.totalDemand, 0),
                 batchCall.currentStock) > 0

C21_OptionsDeduplicated ==
    OnNormalPath
        => /\ Len(decision.options) <= 5
           /\ \A i, j \in 1..Len(decision.options) :
                i < j => Abs(decision.options[i].size - decision.options[j].size) >= 2

(***************************************************************************)
(* C22  Selection rule: when net demand is positive, selectedOption is an  *)
(* element of options whose score is the maximum over all options, and     *)
(* among the options with that maximum score it is the one generated       *)
(* earliest.                                                               *)
(***************************************************************************)
IsEarliestBest(options, i) ==
    /\ \A j \in 1..Len(options) : options[j].score <= options[i].score
    /\ \A j \in 1..(i - 1) : options[j].score < options[i].score

C22_EarliestBestSelected ==
    OnNormalPath
        => \E i \in 1..Len(decision.options) :
            /\ decision.selectedOption = decision.options[i]
            /\ IsEarliestBest(decision.options, i)

\* two options share the highest score, and the earlier of them is selected
C22_Witness ==
    /\ OnNormalPath
    /\ \E i, j \in 1..Len(decision.options) :
            /\ i < j
            /\ decision.options[j].score = decision.options[i].score
            /\ decision.options[j].reasoning # decision.options[i].reasoning
            /\ decision.selectedOption = decision.options[i]
            /\ decision.selectedOption.score > 0

(***************************************************************************)
(* C23  Impact zone direction: for a holiday with daysBefore = b and       *)
(* daysAfter = a, a date lying k days before the holiday is affected       *)
(* (appears in affectedHolidays) exactly when k <= b, and a date lying k   *)
(* days after the holiday is affected exactly when k <= a; the explanation *)
(* labels the former 'before' and the latter 'after'.                      *)
(***************************************************************************)
\* the entries of the answer that belong to one holiday
EntriesOf(holiday) ==
    {i \in 1..Len(impact.affectedHolidays) :
        impact.affectedHolidays[i].holiday = holiday}

\* the holiday instances of the year of the date asked about
InstancesOfYear == getHolidaysForYear(holidays, GetFullYear(impactDate))

C23_ZoneFollowsDirection ==
    hePc = "impact"
        => \A n \in 1..Len(InstancesOfYear) :
            LET inst == InstancesOfYear[n]
            IN  /\ inst.date > impactDate
                    => /\ EntriesOf(inst.holiday) # {}
                            <=> inst.date - impactDate <= inst.holiday.daysBefore
                       /\ \A i \in EntriesOf(inst.holiday) :
                            impact.explanation.parts[i].direction = "before"
                /\ inst.date < impactDate
                    => /\ EntriesOf(inst.holiday) # {}
                            <=> impactDate - inst.date <= inst.holiday.daysAfter
                       /\ \A i \in EntriesOf(inst.holiday) :
                            impact.explanation.parts[i].direction = "after"

(***************************************************************************)
(* C24  Floating holiday resolution: for every year, month and rule        *)
(* '{first|second|third|fourth|last} {weekday}', the resolved date falls   *)
(* on the named weekday, lies inside the rule's month, and is the n-th     *)
(* (respectively the last) occurrence of that weekday in that month.       *)
(***************************************************************************)
\* date is the n-th day of its weekday in its month
IsNthOfItsWeekday(date, n) == (GetDate(date) - 1) \div 7 = n - 1

\* no later day of the month has the weekday of date
IsLastOfItsWeekday(date) ==
    GetDate(date) + 7 > DaysInMonth(GetFullYear(date), GetMonth(date))

C24_FloatingRuleResolved ==
    hePc = "resolved"
        => LET rule == floatCall.holiday.rule
           IN  /\ floatDate # NoDate
               /\ DayNames[GetDay(floatDate) + 1] = rule[2]
               /\ GetFullYear(floatDate) = floatCall.year
               /\ GetMonth(floatDate) = floatCall.holiday.month
               /\ rule[1] = "first" => IsNthOfItsWeekday(floatDate, 1)
               /\ rule[1] = "second" => IsNthOfItsWeekday(floatDate, 2)
               /\ rule[1] = "third" => IsNthOfItsWeekday(floatDate, 3)
               /\ rule[1] = "fourth" => IsNthOfItsWeekday(floatDate, 4)
               /\ rule[1] = "last" => IsLastOfItsWeekday(floatDate)

\* the fourth Saturday of February 2025, a month of 28 days that starts on a
\* Saturday: the last day the rule can reach
C24_Witness ==
    /\ hePc = "resolved"
    /\ floatCall.year = 2025
    /\ floatCall.holiday.month = 2
    /\ floatCall.holiday.rule = <<"fourth", "saturday">>
    /\ floatDate = MakeDate(2025, 2, 22)

(***************************************************************************)
(* C25  Window across the year boundary: getHolidayImpactFactor(date)      *)
(* includes every active holiday instance whose resolved date is within    *)
(* the impact window of the date, also when that instance falls in the     *)
(* calendar year before or after the date's own year.                      *)
(***************************************************************************)
\* the answer lists the instance at its distance from the date asked about
ListsInstance(inst) ==
    \E i \in 1..Len(impact.affectedHolidays) :
        /\ impact.affectedHolidays[i].holiday = inst.holiday
        /\ impact.affectedHolidays[i].distance = impactDate - inst.date

C25_WindowCrossesYearBoundary ==
    hePc = "impact"
        => \A year \in (GetFullYear(impactDate) - 1)..(GetFullYear(impactDate) + 1) :
            \A n \in 1..Len(getHolidaysForYear(holidays, year)) :
                LET inst == getHolidaysForYear(holidays, year)[n]
                IN  InImpactZone(inst.holiday, impactDate - inst.date)
                        => ListsInstance(inst)

(***************************************************************************)
(* C26  With the default holiday set, for every year the resolved date of  *)
(* 'Black Friday' is the day immediately after the resolved date of        *)
(* 'Thanksgiving'.                                                         *)
(***************************************************************************)
\* the dates the list of a year gives the holiday of one id
DatesOf(instances, id) ==
    {instances[n].date : n \in {k \in 1..Len(instances) : instances[k].holiday.id = id}}

C26_BlackFridayFollowsThanksgiving ==
    (hePc = "year" /\ ctorHolidays = <<>> /\ mutations = 0)
        => \A friday \in DatesOf(yearOut, "black-friday") :
            \A thursday \in DatesOf(yearOut, "thanksgiving") : friday = thursday + 1

(***************************************************************************)
(* C27  Directional consistency: when exactly one holiday affects a date,  *)
(* the factor never moves against the holiday's multiplier: for            *)
(* salesMultiplier >= 1 the factor is >= 1.0 at every date of its window,  *)
(* the dates at the edge of the window included.                           *)
(***************************************************************************)
C27_FactorFollowsMultiplier ==
    (/\ hePc = "impact"
     /\ Len(impact.affectedHolidays) = 1
     /\ impact.affectedHolidays[1].holiday.salesMultiplier >= Scale)
        => ~IsNaN(impact.factor) /\ impact.factor >= Scale

(***************************************************************************)
(* C28  Never under-produce: for every input with integer totalDemand,     *)
(* currentStock >= 0, totalDemand > currentStock and minBatchSize > 0, a   *)
(* decision returned on the normal path has produceToday >=                *)
(* ceil(totalDemand - currentStock); the minimum-batch and economic-batch  *)
(* candidates are never selected when they are smaller than net demand.    *)
(***************************************************************************)
\* totalDemand - currentStock of the call; both are whole numbers here
CallNetDemand == batchCall.multiDayDemand.totalDemand - batchCall.currentStock

C28_NeverUnderProduce ==
    (/\ boPc = "decided"
     /\ batchCall.currentStock >= 0
     /\ CallNetDemand > 0
     /\ batchCall.config.minBatchSize > 0)
        => /\ decision.reasoning # ErrorInBatchCalculation
           /\ decision.produceToday >= CallNetDemand
           /\ decision.selectedOption.reasoning \in {MinBatchCovers, MinBatchShort, EconomicBatch}
                => decision.selectedOption.size >= CallNetDemand

\* a minimum batch and an economic batch below net demand are both on offer,
\* and neither is taken
C28_Witness ==
    /\ boPc = "decided"
    /\ batchCall.currentStock = 0
    /\ batchCall.config.minBatchSize > 0
    /\ \E i, j \in 1..Len(decision.options) :
            /\ decision.options[i].reasoning = MinBatchShort
            /\ decision.options[i].size < CallNetDemand
            /\ decision.options[j].reasoning = EconomicBatch
            /\ decision.options[j].size < CallNetDemand
    /\ decision.produceToday >= CallNetDemand

(***************************************************************************)
(* C29  Decision self-consistency: every BatchDecision returned by         *)
(* optimizeBatchSize (normal, sufficient-stock and fallback paths alike)   *)
(* satisfies produceToday = recommendedBatchSize = selectedOption.size,    *)
(* efficiencyScore = selectedOption.efficiency, wasteRiskScore =           *)
(* selectedOption.wasteRisk, and selectedOption is one of options.         *)
(***************************************************************************)
IsSelfConsistent(d) ==
    /\ d.produceToday = d.recommendedBatchSize
    /\ d.recommendedBatchSize = d.selectedOption.size
    /\ d.efficiencyScore = d.selectedOption.efficiency
    /\ d.wasteRiskScore = d.selectedOption.wasteRisk
    /\ \E i \in 1..Len(d.options) : d.options[i] = d.selectedOption

ProcessedFileIds ==
    {uploadedFiles[i].id : i \in {k \in 1..Len(uploadedFiles) :
                                     uploadedFiles[k].status = "processed"}}

RecordsHaveProcessedFile ==
    \A k \in 1..Len(processedData) : processedData[k].upload \in ProcessedFileIds

ReadyMeansProcessedFile ==
    (upPc = "dropped" /\ dataStatus = "ready") => ProcessedFileIds # {}

C30_UploadDataConsistent == RecordsHaveProcessedFile /\ ReadyMeansProcessedFile

=============================================================================
